---------------------------- MODULE Spec2Model ----------------------------
(***************************************************************************)
(* Model of the docker-secure-list-api gateway.                            *)
(*                                                                         *)
(*   SpecGate    : src/auth.js + the route table of src/server.js          *)
(*   SpecRestart : restartContainers (src/docker.js) and its route         *)
(*   SpecUpdate  : updateDockerInstanceWithBackup (src/docker.js)          *)
(*   SpecBackup  : the same workflow run by two callers at once            *)
(*   SpecPut     : putFileInContainer (src/docker.js)                      *)
(*   SpecEco     : the ecosystem-start route and its schema (server.js)    *)
(*   SpecLogs    : pm2LogsContains (src/docker.js)                         *)
(*   SpecMem     : parseMemory, updateContainerMemory and their route      *)
(*   SpecList    : listContainers (src/docker.js)                          *)
(*   SpecAuth    : auth (src/auth.js) as a function of its arguments       *)
(*   SpecExec    : execInContainer (src/docker.js)                         *)
(*                                                                         *)
(* JavaScript strings whose content matters are sequences of atoms.  An    *)
(* atom is either a character [ch |-> "B"] or, inside a credential header, *)
(* a well-formed signed token [alg, key, expired, scopes] standing for     *)
(* the characters of that token.                                           *)
(***************************************************************************)
EXTENDS Integers, Sequences, FiniteSets, TLC

VARIABLES
    \* ---- authorization gate and routing (auth.js, server.js)
    gpc,        \* "boot" | "crashed" | "idle" | "chain" | "done"
    authCfg,    \* what makeAuthMiddleware captured: [alg, key]
    req,        \* the request in flight: [route, header, user]
    chainPos,   \* index of the next middleware of the matched route
    res,        \* responses sent for the request in flight
    verifyLog,  \* token strings handed to jwt.verify for this request
    handlerRuns,\* how many times the route's own handler was invoked
    engineOps,  \* engine operations reached while serving this request
    \* ---- restartContainers and POST /v1/containers/restart
    rpc,        \* "idle" | "loop" | "returned" | "thrown" | "responded"
    rvia,       \* "route" | "direct": who called restartContainers
    rids,       \* the ids argument: [isArray, items]
    ridx,       \* loop position in ids (1-based)
    results,    \* the results array being built
    rthrown,    \* the value thrown by restartContainers, or NoError
    rres,       \* responses sent by the restart route
    engineLog,  \* engine restart calls made: <<[id, ok, msg]>>
    rtrace,     \* restarts issued and settled, as they happen: <<[ev, idx]>>
    \* ---- updateDockerInstanceWithBackup
    upc,        \* position in the workflow (a stage name, "wait", "done", "failed", "idle")
    udomain,    \* the domain argument
    uenv,       \* [creds: BOOLEAN] whether the deploy credentials are configured
    containers, \* what the engine lists: set of [Id, Names]
    pending,    \* a container the deploy is still bringing up, or NoContainer
    oldContainerId,
    newContainerId,
    retries,
    started,    \* side-effecting stages started, in order
    succeeded,  \* stages that completed without error
    updateLog,  \* what the deploy procedure resolved with
    uerror,     \* the value thrown to the caller, or NoError
    ucause,     \* the value thrown by the failing stage, or NoError
    uresult,    \* the record returned on success, or NoResult
    ucommands,  \* commands issued on a container, in order: <<[stage, container]>>
    \* ---- putFileInContainer, two invocations in flight
    ppc,        \* per invocation: "idle" | "mkdir" | "write" | "tar" | "read" | "put" | "rmdir" | "rmtar" | "done"
    pargs,      \* per invocation: [id, unique, filename]
    pfailed,    \* per invocation: the exception pending through finally, or NoError
    ptarData,   \* per invocation: whose content fs.readFile returned (0: none)
    pfs,        \* local storage: set of [e: entry, by: invocation that wrote it, content]
    puploads,   \* archives streamed into containers: <<[call, id, content]>>
    ptouched,   \* <<[actor, victim, op]>>: an invocation read, overwrote or deleted another's entry
    \* ---- POST /v1/containers/:id/pm2/ecosystem/start
    epc,        \* "idle" | "put" | "pm2" | "responded"
    ebody,      \* req.body.ecosystem as received
    edata,      \* the ecosystem object after validateEcosystem ran on it
    elog,       \* calls made by the handler and how they settled, in order
    eres,       \* responses sent
    \* ---- pm2LogsContains
    lpc,        \* "idle" | "flush" | "create" | "starting" | "listening" | "over"
    lneedle,    \* searchString
    levents,    \* engine calls made and completed, in order
    lfound,     \* the found flag
    lattached,  \* the stream still has the listeners of lines 118 and 127
    ltimer,     \* the timer of line 123 is pending
    lclock,     \* seconds since the stream started
    lseen,      \* chunks the stream delivered to the data listener: <<[chunk, at]>>
    lresult,    \* the promise: Pending, or how it settled
    lsettles,   \* how many times the promise changed state, and when last
    \* ---- updateContainerMemory and parseMemory
    mpc,        \* "idle" | "updating" | "done" | "thrown" | "refused"
    margs,      \* [memory, memorySwap] as passed
    mmem,       \* what parseMemory(memory) gave: a value or a throw
    mswap,      \* what parseMemory(memorySwap ?? memory) gave
    mengine,    \* container.update calls made: <<[Memory, MemorySwap]>>
    mresult,    \* the record returned, or NoMemResult
    mvia,       \* "direct" | "route": who called updateContainerMemory
    mres,       \* responses POST /v1/containers/:id/memory has sent
    \* ---- listContainers
    cpc,        \* "idle" | "listing" | "done" | "thrown"
    creported,  \* what docker.listContainers({ all: true }) resolved with
    csummaries, \* what listContainers returned
    \* ---- updateDockerInstanceWithBackup, two invocations in flight
    bpc,        \* per invocation: a stage name, "idle", "done" or "failed"
    bdomain,    \* per invocation: its domain argument
    bold,       \* per invocation: oldContainerId
    bnew,       \* per invocation: newContainerId
    bengine,    \* what the engine lists: set of [Id, Names]
    bdisk,      \* files under /tmp: set of [dir, file, by, from]
    bwrote,     \* per invocation: the files it has backed up
    brestored,  \* per invocation: the copies it made back: <<[file, by, from, into]>>
    \* ---- auth(req, res, next) called with a next of the caller's
    apc,        \* "idle" | "returned"
    acall,      \* [header, cfg, nextThrows]
    ares,       \* responses sent through res
    anext,      \* how many times next was invoked
    \* ---- execInContainer
    xpc,        \* "idle" | "create" | "starting" | "streaming" | "over" | "crashed"
    xchunks,    \* the chunks the stream has emitted, in order
    xoutput,    \* let output
    xresult     \* the promise returned: pending, resolved with text, or rejected

gateVars    == <<gpc, authCfg, req, chainPos, res, verifyLog, handlerRuns, engineOps>>
restartVars == <<rpc, rvia, rids, ridx, results, rthrown, rres, engineLog, rtrace>>
updateVars  == <<upc, udomain, uenv, containers, pending, oldContainerId,
                 newContainerId, retries, started, succeeded, updateLog, uerror,
                 ucause, uresult, ucommands>>
putVars     == <<ppc, pargs, pfailed, ptarData, pfs, puploads, ptouched>>
ecoVars     == <<epc, ebody, edata, elog, eres>>
logVars     == <<lpc, lneedle, levents, lfound, lattached, ltimer, lclock, lseen,
                 lresult, lsettles>>
memVars     == <<mpc, margs, mmem, mswap, mengine, mresult, mvia, mres>>
listVars    == <<cpc, creported, csummaries>>
backupVars  == <<bpc, bdomain, bold, bnew, bengine, bdisk, bwrote, brestored>>
authVars    == <<apc, acall, ares, anext>>
execVars    == <<xpc, xchunks, xoutput, xresult>>
vars        == <<gateVars, restartVars, updateVars, putVars, ecoVars, logVars, memVars,
                 listVars, backupVars, authVars, execVars>>

\* what the actions of one component leave alone
nonGateVars    == <<restartVars, updateVars, putVars, ecoVars, logVars, memVars, listVars,
                    backupVars, authVars, execVars>>
nonRestartVars == <<gateVars, updateVars, putVars, ecoVars, logVars, memVars, listVars,
                    backupVars, authVars, execVars>>
nonUpdateVars  == <<gateVars, restartVars, putVars, ecoVars, logVars, memVars, listVars,
                    backupVars, authVars, execVars>>
nonPutVars     == <<gateVars, restartVars, updateVars, ecoVars, logVars, memVars, listVars,
                    backupVars, authVars, execVars>>
nonEcoVars     == <<gateVars, restartVars, updateVars, putVars, logVars, memVars, listVars,
                    backupVars, authVars, execVars>>
nonLogVars     == <<gateVars, restartVars, updateVars, putVars, ecoVars, memVars, listVars,
                    backupVars, authVars, execVars>>
nonMemVars     == <<gateVars, restartVars, updateVars, putVars, ecoVars, logVars, listVars,
                    backupVars, authVars, execVars>>
nonListVars    == <<gateVars, restartVars, updateVars, putVars, ecoVars, logVars, memVars,
                    backupVars, authVars, execVars>>
nonBackupVars  == <<gateVars, restartVars, updateVars, putVars, ecoVars, logVars, memVars,
                    listVars, authVars, execVars>>
nonAuthVars    == <<gateVars, restartVars, updateVars, putVars, ecoVars, logVars, memVars,
                    listVars, backupVars, execVars>>
nonExecVars    == <<gateVars, restartVars, updateVars, putVars, ecoVars, logVars, memVars,
                    listVars, backupVars, authVars>>

-----------------------------------------------------------------------------
(* Bounds *)

\* longest scopes array carried by a token
MaxScopes == 2

\* longest ids array sent to the restart operation
MaxIds == 5

\* longest apps array of an ecosystem descriptor
MaxApps == 2

\* most chunks the log stream delivers during one call
MaxChunks == 2

\* longest memory string drawn from MemChars
MaxMemLen == 3

\* how many containers the engine reports to listContainers
MaxListed == 2

\* how many chunks the stream of execInContainer emits at most
MaxOut == 3

-----------------------------------------------------------------------------
(* Strings *)

Ch(c) == [ch |-> c]

StartsWith(s, p) == Len(s) >= Len(p) /\ SubSeq(s, 1, Len(p)) = p

Slice(s, n) == SubSeq(s, n + 1, Len(s))

Includes(arr, x) == \E i \in 1..Len(arr) : arr[i] = x

SeqsUpTo(S, n) == UNION { [1..k -> S] : k \in 0..n }

NoError == [type |-> "none"]

ErrorObj(m) == [type |-> "Error", message |-> m]

-----------------------------------------------------------------------------
(* Credentials *)

RequiredScope == "docker:list"

Algs == {"RS256", "HS256"}

Keys == {"k1", "k2"}

ScopeStrings == {"docker:list", "docker:list:all", "docker:read"}

\* payload.scopes: an array of strings, or some other JSON value
ScopeValues ==
    { [isArray |-> TRUE, items |-> s] : s \in SeqsUpTo(ScopeStrings, MaxScopes) }
    \cup { [isArray |-> FALSE, items |-> <<"docker:list">>] }

\* a well-formed signed token
Tokens == [alg : Algs, key : Keys, expired : BOOLEAN, scopes : ScopeValues]

IsToken(a) == "alg" \in DOMAIN a

BearerPrefix == <<Ch("B"), Ch("e"), Ch("a"), Ch("r"), Ch("e"), Ch("r"), Ch(" ")>>

HeaderPrefixes ==
    { <<>>,
      BearerPrefix,
      <<Ch("b"), Ch("e"), Ch("a"), Ch("r"), Ch("e"), Ch("r"), Ch(" ")>>,
      <<Ch("B"), Ch("e"), Ch("a"), Ch("r"), Ch("e"), Ch("r")>>,
      BearerPrefix \o <<Ch(" ")>> }

HeaderBodies == { <<>>, <<Ch("x")>> } \cup { <<t>> : t \in Tokens }

\* req.headers.authorization: absent, or a string
Headers ==
    { [present |-> FALSE, value |-> <<>>] }
    \cup { [present |-> TRUE, value |-> p \o b] : p \in HeaderPrefixes, b \in HeaderBodies }

NoUser == [none |-> TRUE]

\* process.env as read by makeAuthMiddleware
Envs == [JWT_ALG : Algs \cup {"", "ES256"}, pub : Keys \cup {""}, secret : Keys \cup {""}]

\* makeAuthMiddleware, lines 4-17: the captured configuration, or a startup throw
MakeAuthMiddleware(env) ==
    LET alg == IF env.JWT_ALG = "" THEN "RS256" ELSE env.JWT_ALG
    IN  IF alg = "RS256"
        THEN IF env.pub = "" THEN [ok |-> FALSE, alg |-> alg, key |-> ""]
             ELSE [ok |-> TRUE, alg |-> alg, key |-> env.pub]
        ELSE IF alg = "HS256"
        THEN IF env.secret = "" THEN [ok |-> FALSE, alg |-> alg, key |-> ""]
             ELSE [ok |-> TRUE, alg |-> alg, key |-> env.secret]
        ELSE [ok |-> FALSE, alg |-> alg, key |-> ""]

\* jwt.verify(token, key, {algorithms: [alg]}): the payload, or a throw
JwtVerify(token, cfg) ==
    IF Len(token) = 1 /\ IsToken(token[1])
       /\ token[1].alg = cfg.alg /\ token[1].key = cfg.key
       /\ ~token[1].expired
    THEN [ok |-> TRUE, payload |-> token[1]]
    ELSE [ok |-> FALSE, payload |-> NoUser]

\* lines 21-22: the token string taken from the header
\* (ExtractTokenShort: the prefix cut one character short, slice(6))
ExtractTokenShort(h) ==
    LET raw == IF h.present THEN h.value ELSE <<>>
    IN  IF StartsWith(raw, BearerPrefix) THEN Slice(raw, 6) ELSE raw

ExtractToken(h) ==
    LET raw == IF h.present THEN h.value ELSE <<>>
    IN  IF StartsWith(raw, BearerPrefix) THEN Slice(raw, 7) ELSE raw

\* lines 26-28: Array.isArray(payload.scopes) ? payload.scopes : [] ; includes
\* (HasScopeLoose: without the Array.isArray test; HasScopeAny: any non-empty
\* scopes array accepted)
HasScopeLoose(payload) ==
    Includes(payload.scopes.items, RequiredScope)

HasScopeAny(payload) ==
    payload.scopes.isArray /\ Len(payload.scopes.items) > 0

HasScope(payload) ==
    LET scopes == IF payload.scopes.isArray THEN payload.scopes.items ELSE <<>>
    IN  Includes(scopes, RequiredScope)

Reject(status, error, verified) ==
    [next |-> FALSE, status |-> status, error |-> error, user |-> NoUser,
     verified |-> verified]

\* auth(req, res, next), lines 19-37
\* (AuthScopeFirst: the scopes of the undecoded token tested before jwt.verify)
AuthScopeFirst(h, cfg) ==
    LET token == ExtractToken(h)
        v     == JwtVerify(token, cfg)
    IN  IF token = <<>> THEN Reject(401, "missing_token", <<>>)
        ELSE IF Len(token) = 1 /\ IsToken(token[1]) /\ ~HasScope(token[1])
        THEN Reject(403, "forbidden", <<token>>)
        ELSE IF ~v.ok THEN Reject(401, "invalid_token", <<token>>)
        ELSE [next |-> TRUE, status |-> 0, error |-> "", user |-> v.payload,
              verified |-> <<token>>]

Auth(h, cfg) ==
    LET token == ExtractToken(h)
        v     == JwtVerify(token, cfg)
    IN  IF token = <<>> THEN Reject(401, "missing_token", <<>>)
        ELSE IF ~v.ok THEN Reject(401, "invalid_token", <<token>>)
        ELSE IF ~HasScope(v.payload) THEN Reject(403, "forbidden", <<token>>)
        ELSE [next |-> TRUE, status |-> 0, error |-> "", user |-> v.payload,
              verified |-> <<token>>]

-----------------------------------------------------------------------------
(* Routes: app.get / app.post registrations of server.js.  chain is the   *)
(* middleware list of the registration, ops the engine operations its      *)
(* handler performs in order, validates whether the handler can answer 400 *)
(* before any engine operation.                                            *)

Route(m, p, c, o, v) == [method |-> m, path |-> p, chain |-> c, ops |-> o, validates |-> v]

Gated == <<"auth", "handler">>

\* (RoutesOneOpen: the stats route registered without the gate)
RoutesOneOpen ==
    { Route("GET",  "/healthz", <<"handler">>, <<>>, FALSE),
      Route("GET",  "/v1/containers", Gated, <<"list">>, FALSE),
      Route("GET",  "/v1/containers/:id/pm2status", Gated, <<"exec">>, FALSE),
      Route("POST", "/v1/containers/restart", Gated, <<"restart">>, TRUE),
      Route("POST", "/v1/containers/:id/pm2/restart", Gated, <<"exec">>, FALSE),
      Route("GET",  "/v1/containers/:id/pm2/logs/redis-error", Gated, <<"exec">>, FALSE),
      Route("GET",  "/v1/containers/:id/stats", <<"handler">>, <<"stats">>, FALSE),
      Route("POST", "/v1/containers/:id/memory", Gated, <<"update">>, TRUE),
      Route("POST", "/v1/containers/:id/pm2/ecosystem/start", Gated, <<"archive", "exec">>, TRUE),
      Route("POST", "/v1/containers/:id/pm2/restart/:appName", Gated, <<"exec">>, FALSE) }

Routes ==
    { Route("GET",  "/healthz", <<"handler">>, <<>>, FALSE),
      Route("GET",  "/v1/containers", Gated, <<"list">>, FALSE),
      Route("GET",  "/v1/containers/:id/pm2status", Gated, <<"exec">>, FALSE),
      Route("POST", "/v1/containers/restart", Gated, <<"restart">>, TRUE),
      Route("POST", "/v1/containers/:id/pm2/restart", Gated, <<"exec">>, FALSE),
      Route("GET",  "/v1/containers/:id/pm2/logs/redis-error", Gated, <<"exec">>, FALSE),
      Route("GET",  "/v1/containers/:id/stats", Gated, <<"stats">>, FALSE),
      Route("POST", "/v1/containers/:id/memory", Gated, <<"update">>, TRUE),
      Route("POST", "/v1/containers/:id/pm2/ecosystem/start", Gated, <<"archive", "exec">>, TRUE),
      Route("POST", "/v1/containers/:id/pm2/restart/:appName", Gated, <<"exec">>, FALSE) }

NoRoute == Route("", "", <<>>, <<>>, FALSE)

NoRequest == [route |-> NoRoute, header |-> [present |-> FALSE, value |-> <<>>], user |-> NoUser]

Response(status, body) == [status |-> status, body |-> body]

GateInit ==
    /\ gpc = "boot"
    /\ authCfg = [ok |-> FALSE, alg |-> "", key |-> ""]
    /\ req = NoRequest
    /\ chainPos = 0
    /\ res = <<>>
    /\ verifyLog = <<>>
    /\ handlerRuns = 0
    /\ engineOps = <<>>

\* server.js line 120: const auth = makeAuthMiddleware(process.env)
Boot ==
    /\ gpc = "boot"
    /\ \E env \in Envs :
          LET cfg == MakeAuthMiddleware(env)
          IN  /\ authCfg' = cfg
              /\ gpc' = IF cfg.ok THEN "idle" ELSE "crashed"
    /\ UNCHANGED <<req, chainPos, res, verifyLog, handlerRuns, engineOps>>
    /\ UNCHANGED nonGateVars

\* a request arrives and is matched to its registration
Receive ==
    /\ gpc = "idle"
    /\ \E r \in Routes, h \in Headers :
          req' = [route |-> r, header |-> h, user |-> NoUser]
    /\ gpc' = "chain"
    /\ chainPos' = 1
    /\ res' = <<>>
    /\ verifyLog' = <<>>
    /\ handlerRuns' = 0
    /\ engineOps' = <<>>
    /\ UNCHANGED authCfg
    /\ UNCHANGED nonGateVars

\* the gate runs as the next middleware of the chain
RunAuth ==
    /\ gpc = "chain"
    /\ chainPos <= Len(req.route.chain)
    /\ req.route.chain[chainPos] = "auth"
    /\ LET out == Auth(req.header, authCfg)
       IN  /\ verifyLog' = verifyLog \o out.verified
           /\ IF out.next
              THEN /\ req' = [req EXCEPT !.user = out.user]
                   /\ chainPos' = chainPos + 1
                   /\ UNCHANGED <<gpc, res>>
              ELSE /\ res' = Append(res, Response(out.status, out.error))
                   /\ gpc' = "done"
                   /\ UNCHANGED <<req, chainPos>>
    /\ UNCHANGED <<authCfg, handlerRuns, engineOps>>
    /\ UNCHANGED nonGateVars

\* the route's own handler runs: it answers 400 on a body it refuses, or
\* performs its engine operations in order and answers 200, or 500 at the
\* first one that fails
RunHandler ==
    /\ gpc = "chain"
    /\ chainPos <= Len(req.route.chain)
    /\ req.route.chain[chainPos] = "handler"
    /\ handlerRuns' = handlerRuns + 1
    /\ \/ /\ req.route.ops = <<>>
          /\ res' = Append(res, Response(200, "ok_true"))
          /\ UNCHANGED engineOps
       \/ /\ req.route.validates
          /\ res' = Append(res, Response(400, "invalid_input"))
          /\ UNCHANGED engineOps
       \/ /\ req.route.ops # <<>>
          /\ engineOps' = engineOps \o req.route.ops
          /\ res' = Append(res, Response(200, "result"))
       \/ /\ req.route.ops # <<>>
          /\ \E n \in 1..Len(req.route.ops) :
                engineOps' = engineOps \o SubSeq(req.route.ops, 1, n)
          /\ res' = Append(res, Response(500, "engine_error"))
    /\ gpc' = "done"
    /\ UNCHANGED <<authCfg, req, chainPos, verifyLog>>
    /\ UNCHANGED nonGateVars

\* the response has gone out; the request and its response objects are dropped
Finish ==
    /\ gpc = "done"
    /\ gpc' = "idle"
    /\ req' = NoRequest
    /\ chainPos' = 0
    /\ res' = <<>>
    /\ verifyLog' = <<>>
    /\ handlerRuns' = 0
    /\ engineOps' = <<>>
    /\ UNCHANGED authCfg
    /\ UNCHANGED nonGateVars

-----------------------------------------------------------------------------
(* restartContainers (docker.js 64-79) and POST /v1/containers/restart     *)
(* (server.js 145-160)                                                     *)

RefIds == {"c1", "c2"}

RestartErrors == {"no such container", "socket hang up"}

\* the number of references one call takes (docker.js 65, server.js 147)
BatchSize == 4

\* req.body.ids / the ids argument: an array, or a value that is not one
\* (undefined; a string, which also has a length)
IdsValues ==
    { [isArray |-> TRUE, items |-> s] : s \in SeqsUpTo(RefIds, MaxIds) }
    \cup { [isArray |-> FALSE, items |-> <<>>],
           [isArray |-> FALSE, items |-> <<"c1", "c1", "c1", "c1">>] }

NoIds == [isArray |-> FALSE, items |-> <<>>]

\* server.js 147: !Array.isArray(ids) || ids.length !== 4
RouteRejects(ids) == ~ids.isArray \/ Len(ids.items) # BatchSize

\* docker.js 65: !Array.isArray(ids) || ids.length !== 4
\* (InvalidIdsLengthOnly: without the Array.isArray test)
InvalidIdsLengthOnly(ids) == Len(ids.items) # BatchSize

InvalidIds(ids) == ~ids.isArray \/ Len(ids.items) # BatchSize

\* docker.js 71-76: the record pushed for one attempt
OutcomeRecord(id, out) ==
    IF out.ok THEN [id |-> id, status |-> "restarted"]
    ELSE [id |-> id, status |-> "error", error |-> out.msg]

\* docker.js 69: for (const id of ids): the position after an attempt
\* (LoopAdvanceBreak: the loop left at the first failure)
LoopAdvanceBreak(idx, n, out) == IF out.ok THEN idx + 1 ELSE n + 1

LoopAdvance(idx, n, out) == idx + 1

\* how many restarts the trace shows as issued
Issued(trace) == Cardinality({ p \in 1..Len(trace) : trace[p].ev = "start" })

\* docker.js 69-72: iteration idx issues its restart once, and the loop does
\* not move on while that restart is awaited
\* (CanIssueAhead: restarts issued without awaiting the one before)
CanIssueAhead(idx, trace, n) == Issued(trace) < n

CanIssue(idx, trace, n) == idx <= n /\ Issued(trace) = idx - 1

RestartInit ==
    /\ rpc = "idle"
    /\ rvia = "direct"
    /\ rids = NoIds
    /\ ridx = 0
    /\ results = <<>>
    /\ rthrown = NoError
    /\ rres = <<>>
    /\ engineLog = <<>>
    /\ rtrace = <<>>

\* the route handler up to its first await
RouteRestart ==
    /\ rpc = "idle"
    /\ \E ids \in IdsValues :
          /\ rids' = ids
          /\ IF RouteRejects(ids)
             THEN /\ rres' = <<Response(400, "E necessario fornecer exatamente 4 IDs de containers")>>
                  /\ rpc' = "responded"
                  /\ UNCHANGED <<ridx, rthrown>>
             ELSE IF InvalidIds(ids)
             THEN /\ rthrown' = ErrorObj("invalid_ids")
                  /\ rres' = <<Response(500, "invalid_ids")>>
                  /\ rpc' = "responded"
                  /\ UNCHANGED ridx
             ELSE /\ rpc' = "loop"
                  /\ ridx' = 1
                  /\ UNCHANGED <<rres, rthrown>>
    /\ rvia' = "route"
    /\ UNCHANGED <<results, engineLog, rtrace>>
    /\ UNCHANGED nonRestartVars

\* restartContainers called by any other caller, up to its first await
CallRestartContainers ==
    /\ rpc = "idle"
    /\ \E ids \in IdsValues :
          /\ rids' = ids
          /\ IF InvalidIds(ids)
             THEN /\ rthrown' = ErrorObj("invalid_ids")
                  /\ rpc' = "thrown"
                  /\ UNCHANGED ridx
             ELSE /\ rpc' = "loop"
                  /\ ridx' = 1
                  /\ UNCHANGED rthrown
    /\ rvia' = "direct"
    /\ UNCHANGED <<results, rres, engineLog, rtrace>>
    /\ UNCHANGED nonRestartVars

\* docker.js 70-72: the iteration calls container.restart() and awaits it
RestartIssue ==
    /\ rpc = "loop"
    /\ CanIssue(ridx, rtrace, Len(rids.items))
    /\ rtrace' = Append(rtrace, [ev |-> "start", idx |-> Issued(rtrace) + 1])
    /\ UNCHANGED <<rpc, rvia, rids, ridx, results, rthrown, rres, engineLog>>
    /\ UNCHANGED nonRestartVars

\* one loop iteration: await container.restart() settles, the record is pushed
RestartOne ==
    /\ rpc = "loop"
    /\ ridx <= Len(rids.items)
    /\ Issued(rtrace) >= ridx
    /\ rtrace' = Append(rtrace, [ev |-> "settled", idx |-> ridx])
    /\ \E out \in {[ok |-> TRUE, msg |-> ""]} \cup
                  { [ok |-> FALSE, msg |-> m] : m \in RestartErrors } :
          LET id == rids.items[ridx]
          IN  /\ engineLog' = Append(engineLog, [id |-> id, ok |-> out.ok, msg |-> out.msg])
              /\ results' = Append(results, OutcomeRecord(id, out))
              /\ ridx' = LoopAdvance(ridx, Len(rids.items), out)
    /\ UNCHANGED <<rpc, rvia, rids, rthrown, rres>>
    /\ UNCHANGED nonRestartVars

\* the loop is over: return results; the route answers 200 {result}
RestartReturn ==
    /\ rpc = "loop"
    /\ ridx > Len(rids.items)
    /\ IF rvia = "route"
       THEN /\ rres' = <<Response(200, "result")>>
            /\ rpc' = "responded"
       ELSE /\ rpc' = "returned"
            /\ UNCHANGED rres
    /\ UNCHANGED <<rvia, rids, ridx, results, rthrown, engineLog, rtrace>>
    /\ UNCHANGED nonRestartVars

\* the call is over; the next one starts from fresh locals
RestartReset ==
    /\ rpc \in {"returned", "thrown", "responded"}
    /\ rpc' = "idle"
    /\ rvia' = "direct"
    /\ rids' = NoIds
    /\ ridx' = 0
    /\ results' = <<>>
    /\ rthrown' = NoError
    /\ rres' = <<>>
    /\ engineLog' = <<>>
    /\ rtrace' = <<>>
    /\ UNCHANGED nonRestartVars

-----------------------------------------------------------------------------
(* updateDockerInstanceWithBackup (docker.js 500-585), with                *)
(* findContainerByDomain (484-492) and updateDockerInstance (364-403).     *)
(* A container name is a sequence of pieces: "/", "docker_", a domain,     *)
(* "_chat", or other text.  A full container identifier is a sequence of   *)
(* characters.                                                             *)

Domains == {"a", "b"}

\* found.Id.slice(0, 12)
IdLen == 12

\* while (retries < 10)
RetryLimit == 10

\* if (retries === 10) throw
TimeoutAt == 10

FullId(c) == [i \in 1..(IdLen + 2) |-> IF i <= IdLen THEN c ELSE "f"]

\* String.prototype.slice(0, n)
SliceTo(s, n) == SubSeq(s, 1, IF Len(s) < n THEN Len(s) ELSE n)

Container(id, names) == [Id |-> id, Names |-> names]

ChatName(d) == <<"/", "docker_", d, "_chat">>

\* what the engine may hold when an invocation starts
Universe ==
    { Container(FullId("1"), <<ChatName("a")>>),
      Container(FullId("2"), <<ChatName("a") \o <<"2">>>>),
      Container(FullId("3"), <<<<"/">> \o ChatName("a")>>),
      Container(FullId("4"), <<<<"/", "nginx">>, ChatName("b")>>),
      Container(FullId("5"), <<>>) }

NoContainer == Container(<<>>, <<>>)

\* n.replace(/^\//, "")
StripSlash(n) == IF Len(n) > 0 /\ n[1] = "/" THEN Tail(n) ELSE n

ContainerPattern(domain) == <<"docker_", domain, "_chat">>

\* lines 487-491: the references find() can return (the engine orders the list)
\* (FindContainerByDomainPrefix: names compared by prefix instead of ===)
FindContainerByDomainPrefix(cs, domain) ==
    { SliceTo(c.Id, IdLen) :
        c \in { c \in cs : \E i \in 1..Len(c.Names) :
                    StartsWith(StripSlash(c.Names[i]), ContainerPattern(domain)) } }

FindContainerByDomain(cs, domain) ==
    { SliceTo(c.Id, IdLen) :
        c \in { c \in cs : \E i \in 1..Len(c.Names) :
                    StripSlash(c.Names[i]) = ContainerPattern(domain) } }

\* Error messages and other texts of the workflow are sequences of pieces.
\* line 490: new Error(`Container "${containerPattern}" nao encontrado`)
NotFoundError(domain) ==
    ErrorObj(<<"Container ">> \o ContainerPattern(domain) \o <<" nao encontrado">>)

EngineError == ErrorObj(<<"connect ENOENT /var/run/docker.sock">>)

\* line 539
TimeoutError == ErrorObj(<<"Timeout esperando novo container aparecer">>)

\* a rejection with a bare string: reject("...")
StringValue(s) == [type |-> "string", value |-> s]

\* error.message as the catch block reads it
MessageOf(e) == IF e.type = "Error" THEN e.message ELSE <<"undefined">>

\* line 583: new Error(`Falha no update: ${error.message}`)
UpdateFailed(e) == [type |-> "Error", prefix |-> "Falha no update: ", detail |-> MessageOf(e)]

\* the stage that follows a stage that succeeded (lines 506-564)
\* (NextStageDeployFirst: the deploy placed before the backup)
NextStageDeployFirst(stage) ==
    CASE stage = "locate"           -> "deploy"
      [] stage = "deploy"           -> "mkdir"
      [] stage = "mkdir"            -> "backup_crt"
      [] stage = "backup_crt"       -> "backup_key"
      [] stage = "backup_key"       -> "backup_settings"
      [] stage = "backup_settings"  -> "relocate"
      [] stage = "relocate"         -> "restore_crt"
      [] stage = "restore_crt"      -> "restore_key"
      [] stage = "restore_key"      -> "restore_settings"
      [] stage = "restore_settings" -> "pm2"
      [] stage = "pm2"              -> "done"

NextStage(stage) ==
    CASE stage = "locate"           -> "mkdir"
      [] stage = "mkdir"            -> "backup_crt"
      [] stage = "backup_crt"       -> "backup_key"
      [] stage = "backup_key"       -> "backup_settings"
      [] stage = "backup_settings"  -> "deploy"
      [] stage = "deploy"           -> "relocate"
      [] stage = "relocate"         -> "restore_crt"
      [] stage = "restore_crt"      -> "restore_key"
      [] stage = "restore_key"      -> "restore_settings"
      [] stage = "restore_settings" -> "pm2"
      [] stage = "pm2"              -> "done"

\* lines 581-584: what a stage's throw leads to
AfterFailure(stage) == "failed"

\* stages that run one shell command through promisified exec
ExecStages == {"mkdir", "backup_crt", "backup_key", "backup_settings",
               "restore_crt", "restore_key", "restore_settings"}

ExecError(stage) == ErrorObj(<<"Command failed: ", stage>>)

NoResult == [status |-> "none"]

BackupStages == {"backup_crt", "backup_key", "backup_settings"}

RestoreStages == {"restore_crt", "restore_key", "restore_settings"}

\* the container a stage's command names: ${oldContainerId} on lines 515-521,
\* ${newContainerId} on lines 547-563
\* (TargetOfOld: every command naming oldContainerId)
TargetOfOld(stage, old, new) == old

TargetOf(stage, old, new) == IF stage \in BackupStages THEN old ELSE new

UpdateInit ==
    /\ upc = "idle"
    /\ udomain = ""
    /\ uenv = [creds |-> TRUE]
    /\ containers = {}
    /\ pending = NoContainer
    /\ oldContainerId = <<>>
    /\ newContainerId = <<>>
    /\ retries = 0
    /\ started = <<>>
    /\ succeeded = {}
    /\ updateLog = <<>>
    /\ uerror = NoError
    /\ ucause = NoError
    /\ uresult = NoResult
    /\ ucommands = <<>>

\* a stage threw e: the catch block wraps it and the invocation rejects
Throw(stage, e) ==
    /\ ucause' = e
    /\ IF AfterFailure(stage) = "failed"
       THEN /\ uerror' = UpdateFailed(e)
            /\ upc' = "failed"
       ELSE /\ upc' = AfterFailure(stage)
            /\ UNCHANGED uerror

\* a stage completed
Proceed(stage) ==
    /\ succeeded' = succeeded \cup {stage}
    /\ upc' = NextStage(stage)

\* the call: updateDockerInstanceWithBackup(docker, domain)
UpdateStart ==
    /\ upc = "idle"
    /\ \E d \in Domains, cs \in SUBSET Universe, creds \in BOOLEAN :
          /\ udomain' = d
          /\ containers' = cs
          /\ uenv' = [creds |-> creds]
    /\ upc' = "locate"
    /\ UNCHANGED <<pending, oldContainerId, newContainerId, retries, started,
                   succeeded, updateLog, uerror, ucause, uresult>>
    /\ UNCHANGED ucommands
    /\ UNCHANGED nonUpdateVars

\* 1) findContainerByDomain
Locate ==
    /\ upc = "locate"
    /\ started' = Append(started, "locate")
    /\ \/ /\ FindContainerByDomain(containers, udomain) # {}
          /\ \E id \in FindContainerByDomain(containers, udomain) : oldContainerId' = id
          /\ Proceed("locate")
          /\ UNCHANGED <<uerror, ucause>>
       \/ /\ FindContainerByDomain(containers, udomain) = {}
          /\ Throw("locate", NotFoundError(udomain))
          /\ UNCHANGED <<oldContainerId, succeeded>>
       \/ /\ Throw("locate", EngineError)
          /\ UNCHANGED <<oldContainerId, succeeded>>
    /\ UNCHANGED <<udomain, uenv, containers, pending, newContainerId, retries,
                   updateLog, uresult>>
    /\ UNCHANGED ucommands
    /\ UNCHANGED nonUpdateVars

\* 2), 3), 6): mkdir -p, and the docker cp commands, one shell command each
ExecStage ==
    /\ upc \in ExecStages
    /\ started' = Append(started, upc)
    /\ ucommands' = IF upc = "mkdir" THEN ucommands
                    ELSE Append(ucommands, [stage |-> upc,
                                container |-> TargetOf(upc, oldContainerId, newContainerId)])
    /\ \/ /\ Proceed(upc)
          /\ UNCHANGED <<uerror, ucause>>
       \/ /\ Throw(upc, ExecError(upc))
          /\ UNCHANGED succeeded
    /\ UNCHANGED <<udomain, uenv, containers, pending, oldContainerId, newContainerId,
                   retries, updateLog, uresult>>
    /\ UNCHANGED nonUpdateVars

\* what the shell reports for the deploy command line (lines 395-401)
ShellResults ==
    { [error |-> FALSE, stdout |-> <<"Pulling chat ... done">>, stderr |-> <<>>, emsg |-> <<>>],
      [error |-> TRUE,  stdout |-> <<>>, stderr |-> <<"pull access denied">>,
       emsg |-> <<"Command failed: aws configure set">>],
      [error |-> TRUE,  stdout |-> <<>>, stderr |-> <<>>,
       emsg |-> <<"Command failed: aws configure set">>] }

\* updateDockerInstance(domain), lines 364-403: resolves with the log text or
\* rejects with a bare string
UpdateDockerInstance(domain, env, sh) ==
    IF domain = "" THEN [ok |-> FALSE, ran |-> FALSE, value |-> StringValue(<<"Dominio nao informado.">>)]
    ELSE IF ~env.creds
    THEN [ok |-> FALSE, ran |-> FALSE,
          value |-> StringValue(<<"Credenciais AWS nao configuradas no .env">>)]
    ELSE IF sh.error
    THEN [ok |-> FALSE, ran |-> TRUE,
          value |-> StringValue(IF sh.stderr # <<>> THEN sh.stderr ELSE sh.emsg)]
    ELSE [ok |-> TRUE, ran |-> TRUE, value |-> sh.stdout]

Named(cs, domain) ==
    { c \in cs : \E i \in 1..Len(c.Names) : StripSlash(c.Names[i]) = ContainerPattern(domain) }

\* the identifiers the recreated container can get: a fresh one, or an old one again
RecreatedIds(cs, domain) == {FullId("9")} \cup { c.Id : c \in Named(cs, domain) }

\* 4) updateDockerInstance: the external deploy procedure.  When its command
\* line succeeds the domain's container has been taken down and a new one is
\* being brought up, listed at once or a little later; when it fails midway
\* the old container may or may not be gone.
Deploy ==
    /\ upc = "deploy"
    /\ started' = Append(started, "deploy")
    /\ \E sh \in ShellResults :
          LET out == UpdateDockerInstance(udomain, uenv, sh)
          IN  \/ /\ out.ok
                 /\ updateLog' = out.value
                 /\ Proceed("deploy")
                 /\ \E id \in RecreatedIds(containers, udomain), up \in BOOLEAN :
                       LET new == Container(id, <<ChatName(udomain)>>)
                           rest == containers \ Named(containers, udomain)
                       IN  /\ containers' = IF up THEN rest \cup {new} ELSE rest
                           /\ pending' = IF up THEN NoContainer ELSE new
                 /\ UNCHANGED <<uerror, ucause>>
              \/ /\ ~out.ok
                 /\ Throw("deploy", out.value)
                 /\ \E gone \in BOOLEAN :
                       containers' = IF gone /\ out.ran
                                     THEN containers \ Named(containers, udomain)
                                     ELSE containers
                 /\ UNCHANGED <<updateLog, succeeded, pending>>
    /\ UNCHANGED <<udomain, uenv, oldContainerId, newContainerId, retries, uresult>>
    /\ UNCHANGED ucommands
    /\ UNCHANGED nonUpdateVars

\* the container being brought up becomes visible in the engine's list
EngineUp ==
    /\ upc \in {"relocate", "wait"}
    /\ pending # NoContainer
    /\ containers' = containers \cup {pending}
    /\ pending' = NoContainer
    /\ UNCHANGED <<upc, udomain, uenv, oldContainerId, newContainerId, retries, started,
                   succeeded, updateLog, uerror, ucause, uresult>>
    /\ UNCHANGED ucommands
    /\ UNCHANGED nonUpdateVars

\* lines 537-541: the catch of the retry loop, whatever the attempt threw
\* (RelocateMissNoCount: the catch without retries++)
RelocateMissNoCount ==
    /\ upc' = "wait"
    /\ UNCHANGED <<retries, uerror, ucause>>
    /\ UNCHANGED <<newContainerId, succeeded>>

RelocateMiss ==
    /\ retries' = retries + 1
    /\ IF retries + 1 = TimeoutAt
       THEN Throw("relocate", TimeoutError)
       ELSE /\ upc' = "wait"
            /\ UNCHANGED <<uerror, ucause>>
    /\ UNCHANGED <<newContainerId, succeeded>>

\* 5) one pass of the retry loop body, lines 534-541, up to its await
Relocate ==
    /\ upc = "relocate"
    /\ started' = IF Includes(started, "relocate") THEN started ELSE Append(started, "relocate")
    /\ \/ /\ FindContainerByDomain(containers, udomain) # {}
          /\ \E id \in FindContainerByDomain(containers, udomain) : newContainerId' = id
          /\ Proceed("relocate")
          /\ UNCHANGED <<retries, uerror, ucause>>
       \/ /\ FindContainerByDomain(containers, udomain) = {}
          /\ RelocateMiss
       \/ RelocateMiss     \* the engine's list call failed
    /\ UNCHANGED <<udomain, uenv, containers, pending, oldContainerId, updateLog, uresult>>
    /\ UNCHANGED ucommands
    /\ UNCHANGED nonUpdateVars

\* the one-second timer fires and the while condition is tested again
Wait ==
    /\ upc = "wait"
    /\ IF retries < RetryLimit
       THEN /\ upc' = "relocate"
            /\ UNCHANGED succeeded
       ELSE Proceed("relocate")
    /\ UNCHANGED <<udomain, uenv, containers, pending, oldContainerId, newContainerId,
                   retries, started, updateLog, uerror, ucause, uresult>>
    /\ UNCHANGED ucommands
    /\ UNCHANGED nonUpdateVars

\* 7) execInContainer(docker, newContainerId, ["pm2","restart","all","--no-color"])
\* and the return of the result record
Pm2Restart ==
    /\ upc = "pm2"
    /\ started' = Append(started, "pm2")
    /\ ucommands' = Append(ucommands, [stage |-> "pm2",
                            container |-> TargetOf("pm2", oldContainerId, newContainerId)])
    /\ \/ /\ Proceed("pm2")
          /\ uresult' = [status |-> "success",
                         oldContainerId |-> oldContainerId,
                         newContainerId |-> newContainerId,
                         backupDir |-> <<"/tmp/", udomain>>,
                         domain |-> udomain,
                         message |-> "Update completo com sucesso",
                         updateLog |-> updateLog,
                         restartOutput |-> <<"[PM2] restarted">>]
          /\ UNCHANGED <<uerror, ucause>>
       \/ /\ Throw("pm2", ErrorObj(<<"(HTTP code 409) container is not running">>))
          /\ UNCHANGED <<succeeded, uresult>>
    /\ UNCHANGED <<udomain, uenv, containers, pending, oldContainerId, newContainerId,
                   retries, updateLog>>
    /\ UNCHANGED nonUpdateVars

-----------------------------------------------------------------------------
(* putFileInContainer (docker.js 207-228).  Two invocations may be in       *)
(* flight at once, interleaved at their awaits.  Local storage is a set of  *)
(* entries; each remembers the invocation that wrote it last and whose      *)
(* content it holds.  A filename is a sequence of path components.          *)

Calls == {1, 2}

\* containerId.slice(0, 12)
SafeIdLen == 12

\* container identifiers: two that differ only after the 12th character, and
\* a third one
PutIds == { FullId("1"), [FullId("1") EXCEPT ![IdLen + 1] = "e"], FullId("2") }

\* crypto.randomBytes(4).toString("hex"): the values the generator can give
Uniques == {"0a1b2c3d", "ffffffff"}

Filenames == { <<"ecosystem.json">>, <<"..", "ecosystem.json">>, <<"conf", "ecosystem.json">> }

NoArgs == [id |-> <<>>, unique |-> "", filename |-> <<>>]

\* line 208
SafeId(containerId) == SliceTo(containerId, SafeIdLen)

\* line 210: `/tmp/docker-upload-${safeId}-${unique}`
TmpDir(a) == [kind |-> "dir", id |-> SafeId(a.id), u |-> a.unique]

\* line 212: `${tmpDir}.tar`
TmpTar(a) == [kind |-> "tar", id |-> SafeId(a.id), u |-> a.unique]

\* line 211: `${tmpDir}/${filename}` as the file system resolves it: a plain
\* name is a file of the staging directory, "../name" is a file of /tmp, and
\* a name under a sub-directory has no existing parent
TmpFile(a) ==
    IF Len(a.filename) = 1
    THEN [ok |-> TRUE,
          e  |-> [kind |-> "file", id |-> SafeId(a.id), u |-> a.unique, name |-> a.filename[1]]]
    ELSE IF Len(a.filename) = 2 /\ a.filename[1] = ".."
    THEN [ok |-> TRUE, e |-> [kind |-> "tmpfile", name |-> a.filename[2]]]
    ELSE [ok |-> FALSE, e |-> [kind |-> "none"]]

Has(fs, e) == \E x \in fs : x.e = e

EntryOf(fs, e) == CHOOSE x \in fs : x.e = e

\* create or replace entry e
WriteEntry(fs, e, by, content) ==
    { x \in fs : x.e # e } \cup { [e |-> e, by |-> by, content |-> content] }

InDir(x, d) == x.e.kind = "file" /\ x.e.id = d.id /\ x.e.u = d.u

\* fs.rm(dir, {recursive: true, force: true})
RmRecursive(fs, d) == { x \in fs : x.e # d /\ ~InDir(x, d) }

\* fs.rm(file, {force: true})
RmFile(fs, e) == { x \in fs : x.e # e }

\* the entries of another invocation among xs
Foreign(xs, k, op) == { [actor |-> k, victim |-> x.by, op |-> op] : x \in { y \in xs : y.by # k } }

PutInit ==
    /\ ppc = [k \in Calls |-> "idle"]
    /\ pargs = [k \in Calls |-> NoArgs]
    /\ pfailed = [k \in Calls |-> NoError]
    /\ ptarData = [k \in Calls |-> 0]
    /\ pfs = {}
    /\ puploads = <<>>
    /\ ptouched = {}

\* the step at stage st threw: control goes to the finally block
PutThrow(k, msg) ==
    /\ pfailed' = [pfailed EXCEPT ![k] = ErrorObj(msg)]
    /\ ppc' = [ppc EXCEPT ![k] = "rmdir"]

PutGoto(k, st) ==
    /\ ppc' = [ppc EXCEPT ![k] = st]
    /\ UNCHANGED pfailed

\* lines 207-212: the call computes its paths
PutStart(k) ==
    /\ ppc[k] = "idle"
    /\ \E id \in PutIds, u \in Uniques, fn \in Filenames :
          pargs' = [pargs EXCEPT ![k] = [id |-> id, unique |-> u, filename |-> fn]]
    /\ ppc' = [ppc EXCEPT ![k] = "mkdir"]
    /\ pfailed' = [pfailed EXCEPT ![k] = NoError]
    /\ ptarData' = [ptarData EXCEPT ![k] = 0]
    /\ UNCHANGED <<pfs, puploads, ptouched>>
    /\ UNCHANGED nonPutVars

\* line 215: fs.mkdir(tmpDir, {recursive: true}): no error when it exists
PutMkdir(k) ==
    /\ ppc[k] = "mkdir"
    /\ \/ /\ pfs' = IF Has(pfs, TmpDir(pargs[k])) THEN pfs
                    ELSE WriteEntry(pfs, TmpDir(pargs[k]), k, 0)
          /\ PutGoto(k, "write")
       \/ /\ PutThrow(k, "EACCES")
          /\ UNCHANGED pfs
    /\ UNCHANGED <<pargs, ptarData, puploads, ptouched>>
    /\ UNCHANGED nonPutVars

\* line 216: fs.writeFile(tmpFile, contentBuffer)
PutWrite(k) ==
    /\ ppc[k] = "write"
    /\ LET a == pargs[k]
           f == TmpFile(a)
       IN  \/ /\ f.ok /\ Has(pfs, TmpDir(a))
              /\ pfs' = WriteEntry(pfs, f.e, k, k)
              /\ ptouched' = ptouched \cup
                    Foreign({ x \in pfs : x.e = f.e }, k, "overwrite")
              /\ PutGoto(k, "tar")
           \/ /\ ~(f.ok /\ Has(pfs, TmpDir(a)))
              /\ PutThrow(k, "ENOENT")
              /\ UNCHANGED <<pfs, ptouched>>
           \/ /\ PutThrow(k, "ENOSPC")
              /\ UNCHANGED <<pfs, ptouched>>
    /\ UNCHANGED <<pargs, ptarData, puploads>>
    /\ UNCHANGED nonPutVars

\* line 219: exec(`tar -C ${tmpDir} -cf ${tmpTar} ${filename}`); a tar that
\* fails may have created the archive file already
PutTar(k) ==
    /\ ppc[k] = "tar"
    /\ LET a == pargs[k]
           f == TmpFile(a)
           present == f.ok /\ Has(pfs, TmpDir(a)) /\ Has(pfs, f.e)
       IN  \/ /\ present
              /\ pfs' = WriteEntry(pfs, TmpTar(a), k, EntryOf(pfs, f.e).content)
              /\ ptouched' = ptouched
                    \cup Foreign({ x \in pfs : x.e = TmpTar(a) }, k, "overwrite")
                    \cup Foreign({ x \in pfs : x.e = f.e }, k, "read")
              /\ PutGoto(k, "read")
           \/ /\ \E left \in BOOLEAN :
                    /\ pfs' = IF left THEN WriteEntry(pfs, TmpTar(a), k, 0) ELSE pfs
                    /\ ptouched' = IF left
                                   THEN ptouched \cup
                                        Foreign({ x \in pfs : x.e = TmpTar(a) }, k, "overwrite")
                                   ELSE ptouched
              /\ PutThrow(k, "Command failed: tar")
    /\ UNCHANGED <<pargs, ptarData, puploads>>
    /\ UNCHANGED nonPutVars

\* line 221: fs.readFile(tmpTar)
PutRead(k) ==
    /\ ppc[k] = "read"
    /\ LET a == pargs[k]
       IN  \/ /\ Has(pfs, TmpTar(a))
              /\ ptarData' = [ptarData EXCEPT ![k] = EntryOf(pfs, TmpTar(a)).content]
              /\ ptouched' = ptouched \cup Foreign({ x \in pfs : x.e = TmpTar(a) }, k, "read")
              /\ PutGoto(k, "put")
           \/ /\ PutThrow(k, IF Has(pfs, TmpTar(a)) THEN "EIO" ELSE "ENOENT")
              /\ UNCHANGED <<ptarData, ptouched>>
    /\ UNCHANGED <<pargs, pfs, puploads>>
    /\ UNCHANGED nonPutVars

\* lines 222-223: container.putArchive(tarData, {path})
PutArchive(k) ==
    /\ ppc[k] = "put"
    /\ \/ /\ puploads' = Append(puploads, [call |-> k, id |-> pargs[k].id,
                                           content |-> ptarData[k]])
          /\ PutGoto(k, "rmdir")
       \/ /\ PutThrow(k, "(HTTP code 404) no such container")
          /\ UNCHANGED puploads
    /\ UNCHANGED <<pargs, ptarData, pfs, ptouched>>
    /\ UNCHANGED nonPutVars

\* line 225: fs.rm(tmpDir, {recursive: true, force: true})
PutRmDir(k) ==
    /\ ppc[k] = "rmdir"
    /\ LET d == TmpDir(pargs[k])
       IN  /\ pfs' = RmRecursive(pfs, d)
           /\ ptouched' = ptouched \cup Foreign(pfs \ RmRecursive(pfs, d), k, "delete")
    /\ ppc' = [ppc EXCEPT ![k] = "rmtar"]
    /\ UNCHANGED <<pargs, pfailed, ptarData, puploads>>
    /\ UNCHANGED nonPutVars

\* line 226: fs.rm(tmpTar, {force: true}); then the call resolves, or rejects
\* with the pending exception
PutRmTar(k) ==
    /\ ppc[k] = "rmtar"
    /\ LET t == TmpTar(pargs[k])
       IN  /\ pfs' = RmFile(pfs, t)
           /\ ptouched' = ptouched \cup Foreign(pfs \ RmFile(pfs, t), k, "delete")
    /\ ppc' = [ppc EXCEPT ![k] = "done"]
    /\ UNCHANGED <<pargs, pfailed, ptarData, puploads>>
    /\ UNCHANGED nonPutVars

\* both invocations are over; the next pair is observed on a fresh storage
PutReset ==
    /\ \A k \in Calls : ppc[k] \in {"idle", "done"}
    /\ \E k \in Calls : ppc[k] = "done"
    /\ ppc' = [k \in Calls |-> "idle"]
    /\ pargs' = [k \in Calls |-> NoArgs]
    /\ pfailed' = [k \in Calls |-> NoError]
    /\ ptarData' = [k \in Calls |-> 0]
    /\ pfs' = {}
    /\ puploads' = <<>>
    /\ ptouched' = {}
    /\ UNCHANGED nonPutVars

-----------------------------------------------------------------------------
(* POST /v1/containers/:id/pm2/ecosystem/start (server.js 275-305) and the  *)
(* schema it validates against (server.js 231-273).  An object is given by  *)
(* the set of its property names; of a process entry, also the names of the *)
(* properties whose value breaks the property's own schema.                 *)

\* lines 248-266: the properties of a process entry
KnownProps ==
    {"name", "script", "watch", "ignore_watch", "autorestart", "instances",
     "max_memory_restart", "exec_mode", "interpreter", "env", "out_file",
     "error_file", "log_date_format"}

\* line 268
RequiredProps == {"name", "script", "instances", "exec_mode"}

\* line 240: the properties of the descriptor
TopProps == {"apps"}

AppEntry(keys, bad) == [keys |-> keys, bad |-> bad]

\* process entries sent by clients: complete or lacking one required
\* property, with or without an optional one ("watch") or one the schema
\* does not name ("user"), one value possibly out of range ("instances": 0)
AppEntries ==
    { AppEntry(given \cup extra, bad) :
        given \in {RequiredProps} \cup { RequiredProps \ {r} : r \in RequiredProps },
        extra \in { {}, {"watch"}, {"user"} },
        bad   \in { {}, {"instances"} } }

\* req.body.ecosystem
EcoValue(kind, top, apps) == [kind |-> kind, top |-> top, apps |-> apps]

EcoBodies ==
    { EcoValue("absent", {}, <<>>), EcoValue("string", {}, <<>>), EcoValue("array", {}, <<>>) }
    \cup { EcoValue("object", top, apps) :
             top \in SUBSET {"apps", "version"}, apps \in SeqsUpTo(AppEntries, MaxApps) }

NoEco == EcoValue("absent", {}, <<>>)

\* line 279: !ecosystem || typeof ecosystem !== "object"
MissingEcosystem(eco) == eco.kind \notin {"object", "array"}

\* one process entry against lines 245-268.  additionalProperties: false
\* under removeAdditional: "failing" deletes the properties the schema does
\* not name instead of reporting them.
ValidateEntryNoRequired(entry) ==
    [ok   |-> (entry.bad \cap KnownProps) \cap entry.keys = {},
     data |-> AppEntry(entry.keys \cap KnownProps, entry.bad \cap KnownProps)]

ValidateEntry(entry) ==
    [ok   |-> /\ RequiredProps \subseteq entry.keys
              /\ (entry.bad \cap KnownProps) \cap entry.keys = {},
     data |-> AppEntry(entry.keys \cap KnownProps, entry.bad \cap KnownProps)]

\* validateEcosystem(ecosystem), lines 231-273: whether it accepts, and the
\* object as it leaves it
ValidateEcosystem(eco) ==
    IF eco.kind # "object" THEN [ok |-> FALSE, data |-> eco]
    ELSE LET apps == IF "apps" \in eco.top
                     THEN [i \in 1..Len(eco.apps) |-> ValidateEntry(eco.apps[i]).data]
                     ELSE <<>>
         IN  [ok   |-> /\ "apps" \in eco.top
                       /\ Len(eco.apps) >= 1
                       /\ \A i \in 1..Len(eco.apps) : ValidateEntry(eco.apps[i]).ok,
              data |-> EcoValue("object", eco.top \cap TopProps, apps)]

Ev(name, data) == [ev |-> name, data |-> data]

EcoInit ==
    /\ epc = "idle"
    /\ ebody = NoEco
    /\ edata = NoEco
    /\ elog = <<>>
    /\ eres = <<>>

\* lines 276-293: the handler up to its first await
EcoRequest ==
    /\ epc = "idle"
    /\ \E eco \in EcoBodies :
          /\ ebody' = eco
          /\ IF MissingEcosystem(eco)
             THEN /\ eres' = <<Response(400, "missing_ecosystem_json")>>
                  /\ epc' = "responded"
                  /\ UNCHANGED <<edata, elog>>
             ELSE LET v == ValidateEcosystem(eco)
                  IN  /\ edata' = v.data
                      /\ IF ~v.ok
                         THEN /\ eres' = <<Response(400, "invalid_ecosystem")>>
                              /\ epc' = "responded"
                              /\ UNCHANGED elog
                         ELSE /\ elog' = <<Ev("putFileInContainer", v.data)>>
                              /\ epc' = "put"
                              /\ UNCHANGED eres
    /\ UNCHANGED nonEcoVars

\* lines 293-300: putFileInContainer settles
EcoPutSettled ==
    /\ epc = "put"
    /\ \/ /\ elog' = elog \o <<Ev("staged", edata), Ev("pm2StartEcosystem", edata)>>
          /\ epc' = "pm2"
          /\ UNCHANGED eres
       \/ /\ elog' = Append(elog, Ev("put_failed", edata))
          /\ eres' = <<Response(500, "put_archive_error")>>
          /\ epc' = "responded"
    /\ UNCHANGED <<ebody, edata>>
    /\ UNCHANGED nonEcoVars

\* lines 300-304: pm2StartEcosystem settles
EcoPm2Settled ==
    /\ epc = "pm2"
    /\ \/ /\ elog' = Append(elog, Ev("started", edata))
          /\ eres' = <<Response(200, "ok_true")>>
       \/ /\ elog' = Append(elog, Ev("pm2_failed", edata))
          /\ eres' = <<Response(500, "pm2_start_error")>>
    /\ epc' = "responded"
    /\ UNCHANGED <<ebody, edata>>
    /\ UNCHANGED nonEcoVars

\* the response has gone out
EcoReset ==
    /\ epc = "responded"
    /\ epc' = "idle"
    /\ ebody' = NoEco
    /\ edata' = NoEco
    /\ elog' = <<>>
    /\ eres' = <<>>
    /\ UNCHANGED nonEcoVars

-----------------------------------------------------------------------------
(* pm2LogsContains (docker.js 101-133).  Time is counted in seconds from    *)
(* the moment the log stream starts; a timer set for 3000 ms runs when the  *)
(* clock shows 3, before the clock moves on.  Log text is a sequence of     *)
(* pieces.                                                                  *)

\* line 126: setTimeout(..., 3000), in seconds
WindowSecs == 3

Needles == { <<"E", "R">>, <<"x">> }

Chunks == { <<"y">>, <<"E", "R">>, <<"y", "E">>, <<"R", "y">>, <<"y", "x", "E", "R">> }

\* String.prototype.includes
Contains(text, needle) ==
    \E i \in 1..(Len(text) - Len(needle) + 1) :
        SubSeq(text, i, i + Len(needle) - 1) = needle

Pending == [kind |-> "pending", value |-> FALSE]

Resolved(v) == [kind |-> "resolved", value |-> v]

Rejected == [kind |-> "rejected", value |-> FALSE]

\* resolve / reject called on a promise in state cur: the first call decides
\* (SettleAgain: every call decides anew)
SettleAgain(cur, v) == v

Settle(cur, v) == IF cur = Pending THEN v ELSE cur

\* lines 118-122: the data listener: the flag after the chunk, and whether
\* the listener settles the promise
\* (OnDataEager: the listener resolves the promise when it sets the flag)
OnDataEager(found, chunk, needle) ==
    [found  |-> found \/ Contains(chunk, needle),
     settle |-> found \/ Contains(chunk, needle)]

OnData(found, chunk, needle) ==
    [found  |-> found \/ (~found /\ Contains(chunk, needle)),
     settle |-> FALSE]

LogsInit ==
    /\ lpc = "idle"
    /\ lneedle = <<>>
    /\ levents = <<>>
    /\ lfound = FALSE
    /\ lattached = FALSE
    /\ ltimer = FALSE
    /\ lclock = 0
    /\ lseen = <<>>
    /\ lresult = Pending
    /\ lsettles = [n |-> 0, at |-> 0]

\* the promise is given value v now
LogsSettle(v) ==
    /\ lresult' = Settle(lresult, v)
    /\ lsettles' = IF Settle(lresult, v) # lresult
                   THEN [n |-> lsettles.n + 1, at |-> lclock]
                   ELSE lsettles

\* line 103: the call starts the flush command
LogsCall ==
    /\ lpc = "idle"
    /\ \E n \in Needles : lneedle' = n
    /\ levents' = <<"flush_called">>
    /\ lpc' = "flush"
    /\ UNCHANGED <<lfound, lattached, ltimer, lclock, lseen, lresult, lsettles>>
    /\ UNCHANGED nonLogVars

\* lines 103-111: execInContainer(["pm2", "flush"]) settles; on success
\* container.exec is called for the log tail
LogsFlushSettled ==
    /\ lpc = "flush"
    /\ \/ /\ levents' = levents \o <<"flush_done", "exec_called">>
          /\ lpc' = "create"
          /\ UNCHANGED <<lresult, lsettles>>
       \/ /\ levents' = Append(levents, "flush_failed")
          /\ lpc' = "over"
          /\ LogsSettle(Rejected)
    /\ UNCHANGED <<lneedle, lfound, lattached, ltimer, lclock, lseen>>
    /\ UNCHANGED nonLogVars

\* lines 106-115: container.exec settles; on success exec.start is called
LogsExecCreated ==
    /\ lpc = "create"
    /\ \/ /\ levents' = Append(levents, "start_called")
          /\ lpc' = "starting"
          /\ UNCHANGED <<lresult, lsettles>>
       \/ /\ levents' = Append(levents, "exec_failed")
          /\ lpc' = "over"
          /\ LogsSettle(Rejected)
    /\ UNCHANGED <<lneedle, lfound, lattached, ltimer, lclock, lseen>>
    /\ UNCHANGED nonLogVars

\* lines 115-130: the callback of exec.start
LogsStreamStart ==
    /\ lpc = "starting"
    /\ \/ /\ levents' = Append(levents, "stream_started")
          /\ lpc' = "listening"
          /\ lattached' = TRUE
          /\ ltimer' = TRUE
          /\ lclock' = 0
          /\ UNCHANGED <<lresult, lsettles>>
       \/ /\ levents' = Append(levents, "start_failed")
          /\ lpc' = "over"
          /\ LogsSettle(Rejected)
          /\ UNCHANGED <<lattached, ltimer, lclock>>
    /\ UNCHANGED <<lneedle, lfound, lseen>>
    /\ UNCHANGED nonLogVars

\* lines 118-122: the stream delivers a chunk to the data listener
LogsData ==
    /\ lpc = "listening"
    /\ lattached
    /\ Len(lseen) < MaxChunks
    /\ \E chunk \in Chunks :
          LET out == OnData(lfound, chunk, lneedle)
          IN  /\ lseen' = Append(lseen, [chunk |-> chunk, at |-> lclock])
              /\ lfound' = out.found
              /\ IF out.settle
                 THEN LogsSettle(Resolved(TRUE))
                 ELSE UNCHANGED <<lresult, lsettles>>
    /\ UNCHANGED <<lpc, lneedle, levents, lattached, ltimer, lclock>>
    /\ UNCHANGED nonLogVars

\* a second passes; a timer that is due runs first
LogsTick ==
    /\ lpc = "listening"
    /\ lclock <= WindowSecs
    /\ ~(ltimer /\ lclock = WindowSecs)
    /\ lclock' = lclock + 1
    /\ UNCHANGED <<lpc, lneedle, levents, lfound, lattached, ltimer, lseen, lresult, lsettles>>
    /\ UNCHANGED nonLogVars

\* lines 123-126: the timer callback
LogsTimer ==
    /\ lpc = "listening"
    /\ ltimer
    /\ lclock = WindowSecs
    /\ ltimer' = FALSE
    /\ lattached' = FALSE
    /\ LogsSettle(Resolved(lfound))
    /\ UNCHANGED <<lpc, lneedle, levents, lfound, lclock, lseen>>
    /\ UNCHANGED nonLogVars

\* lines 127-130: the stream emits "error" while the listener is attached
LogsStreamError ==
    /\ lpc = "listening"
    /\ lattached
    /\ lattached' = FALSE
    /\ levents' = Append(levents, "stream_error")
    /\ LogsSettle(Rejected)
    /\ UNCHANGED <<lpc, lneedle, lfound, ltimer, lclock, lseen>>
    /\ UNCHANGED nonLogVars

\* the call is over and no timer of it is pending
LogsReset ==
    /\ lresult # Pending
    /\ ~ltimer
    /\ lpc' = "idle"
    /\ lneedle' = <<>>
    /\ levents' = <<>>
    /\ lfound' = FALSE
    /\ lattached' = FALSE
    /\ lclock' = 0
    /\ lseen' = <<>>
    /\ lresult' = Pending
    /\ lsettles' = [n |-> 0, at |-> 0]
    /\ UNCHANGED ltimer
    /\ UNCHANGED nonLogVars

-----------------------------------------------------------------------------
(* parseMemory (docker.js 166-183) and updateContainerMemory (190-200).     *)
(* A string is a sequence of one-character strings.  A byte count is kept   *)
(* as [hi, lo], standing for hi * 1024^2 + lo with 0 <= lo < 1024^2, so     *)
(* that gigabyte values stay within the checker's integers.  Within the     *)
(* strings drawn here the products are exact in double precision and no     *)
(* product but a suffix-less one falls on a half, so Math.round of the      *)
(* exact quotient is what the code computes.                                *)

\* line 178: 1024
Kilo == 1024

Mi == Kilo * Kilo

Bytes(hi, lo) == [hi |-> hi, lo |-> lo]

\* a non-negative integer below 2^31 as a byte count
FromInt(v) == Bytes(v \div Mi, v % Mi)

MemChars == {"4", "5", ".", "g", "K", "b", " "}

Str(t) == [type |-> "string", s |-> t, n |-> Bytes(0, 0)]

Num(b) == [type |-> "number", s |-> <<>>, n |-> b]

Undefined == [type |-> "undefined", s |-> <<>>, n |-> Bytes(0, 0)]

Null == [type |-> "null", s |-> <<>>, n |-> Bytes(0, 0)]

\* a number with a fractional part: whole + tenths / 10, 0 < tenths < 10
Fractional(whole, tenths) == [hi |-> 0, lo |-> whole, tenths |-> tenths]

\* strings every run includes, whatever MaxMemLen
MemExamples ==
    { <<"4", "g">>, <<"5", "1", "2", "m">>, <<"4", "g", "b">>, <<"1", "2", "x">>,
      <<"1", ".", "5", "m">>, <<"1", ".", "2", ".", "3">>, <<".">>, <<"a", "b", "c">>,
      <<" ", "4", " ", "G", " ">>, <<"0", ".", "5", "k">> }

MemValues ==
    { Str(t) : t \in SeqsUpTo(MemChars, MaxMemLen) \cup MemExamples }
    \cup { Num(Bytes(0, 0)), Num(Bytes(0, 1024)), Num(Bytes(4096, 0)), Undefined, Null }
    \cup { Num(Fractional(1, 5)) }

SwapValues ==
    { Undefined, Null, Num(Bytes(0, 0)), Num(Bytes(0, 2048)), Str(<<>>),
      Str(<<"4", "g">>), Str(<<"8", "g">>), Str(<<"4", "g", "b">>), Str(<<".">>),
      Num(Fractional(2, 5)) }

IsDigit(c) == c \in {"0", "1", "2", "3", "4", "5", "6", "7", "8", "9"}

DigitVal(c) ==
    CASE c = "0" -> 0 [] c = "1" -> 1 [] c = "2" -> 2 [] c = "3" -> 3 [] c = "4" -> 4
      [] c = "5" -> 5 [] c = "6" -> 6 [] c = "7" -> 7 [] c = "8" -> 8 [] c = "9" -> 9

RECURSIVE DigitsValue(_)
DigitsValue(ds) ==
    IF ds = <<>> THEN 0
    ELSE 10 * DigitsValue(SubSeq(ds, 1, Len(ds) - 1)) + DigitVal(ds[Len(ds)])

RECURSIVE Pow10(_)
Pow10(n) == IF n = 0 THEN 1 ELSE 10 * Pow10(n - 1)

\* String(value)
StringOf(v) ==
    CASE v.type = "string"    -> v.s
      [] v.type = "undefined" -> <<"u", "n", "d", "e", "f", "i", "n", "e", "d">>
      [] v.type = "null"      -> <<"n", "u", "l", "l">>

\* String.prototype.trim
RECURSIVE Trim(_)
Trim(t) ==
    IF t # <<>> /\ t[1] = " " THEN Trim(Tail(t))
    ELSE IF t # <<>> /\ t[Len(t)] = " " THEN Trim(SubSeq(t, 1, Len(t) - 1))
    ELSE t

\* how many leading characters of t, from position i on, are in class
RECURSIVE RunLen(_, _, _)
RunLen(t, i, class) ==
    IF i <= Len(t) /\ t[i] \in class THEN 1 + RunLen(t, i + 1, class) ELSE 0

NumChars == {"0", "1", "2", "3", "4", "5", "6", "7", "8", "9", "."}

Digits == NumChars \ {"."}

UnitChars == {"k", "K", "m", "M", "g", "G"}

\* line 168: /^([0-9.]+)\s*([kKmMgG])?/.exec(t): no match, or the two groups.
\* The pattern has no end anchor: what follows the groups is not looked at.
RegexExec(t) ==
    LET n == RunLen(t, 1, NumChars)
        j == n + 1 + RunLen(t, n + 1, {" "})
    IN  IF n = 0 THEN [matched |-> FALSE, num |-> <<>>, unit |-> ""]
        ELSE [matched |-> TRUE,
              num     |-> SubSeq(t, 1, n),
              unit    |-> IF j <= Len(t) /\ t[j] \in UnitChars THEN t[j] ELSE ""]

\* parseFloat on a string of digits and dots: the longest leading decimal
\* literal, or NaN when there is none
ParseFloat(t) ==
    LET il == RunLen(t, 1, Digits)
        fl == IF il + 1 <= Len(t) /\ t[il + 1] = "." THEN RunLen(t, il + 2, Digits) ELSE 0
    IN  [nan |-> il = 0 /\ fl = 0,
         num |-> DigitsValue(SubSeq(t, 1, il) \o SubSeq(t, il + 2, il + 1 + fl)),
         den |-> Pow10(fl)]

\* String.prototype.toLowerCase on a unit letter
ToLowerCase(c) ==
    CASE c = "K" -> "k" [] c = "M" -> "m" [] c = "G" -> "g" [] OTHER -> c

\* lines 172-182: the power of 1024 the switch multiplies by
\* (UnitExponentCaseSensitive: the switch on match[2] without toLowerCase)
UnitExponentCaseSensitive(unit) ==
    CASE unit = "g" -> 3 [] unit = "m" -> 2 [] unit = "k" -> 1 [] OTHER -> 0

UnitExponent(unit) ==
    LET u == ToLowerCase(unit)
    IN  CASE u = "g" -> 3 [] u = "m" -> 2 [] u = "k" -> 1 [] OTHER -> 0

\* Math.round(q) for a quotient a / b >= 0: the nearest integer, halves up
RoundDiv(a, b) == (2 * a + b) \div (2 * b)

\* Math.round((num / den) * 1024 ** k)
RoundScaled(num, den, k) ==
    IF k = 0 THEN FromInt(RoundDiv(num, den))
    ELSE IF k = 1 THEN FromInt(RoundDiv(num * Kilo, den))
    ELSE LET whole == IF k = 3 THEN num * Kilo ELSE num
             low   == RoundDiv((whole % den) * Mi, den)
         IN  Bytes((whole \div den) + (low \div Mi), low % Mi)

Value(b) == [ok |-> TRUE, nan |-> FALSE, n |-> b]

NaN == [ok |-> TRUE, nan |-> TRUE, n |-> Bytes(0, 0)]

\* throw new Error("Invalid memory format")
InvalidMemory == [ok |-> FALSE, nan |-> FALSE, n |-> Bytes(0, 0)]

\* parseMemory(value), lines 166-183
ParseMemory(v) ==
    IF v.type = "number" THEN Value(v.n)
    ELSE LET m == RegexExec(Trim(StringOf(v)))
             f == ParseFloat(m.num)
         IN  IF ~m.matched THEN InvalidMemory
             ELSE IF f.nan THEN NaN
             ELSE Value(RoundScaled(f.num, f.den, UnitExponent(m.unit)))

\* line 193: memorySwap ?? memory
\* (SwapSourceFalsy: memorySwap || memory)
SwapSourceFalsy(memory, memorySwap) ==
    IF memorySwap \in {Undefined, Null, Num(Bytes(0, 0)), Str(<<>>)} THEN memory ELSE memorySwap

SwapSource(memory, memorySwap) ==
    IF memorySwap.type \in {"undefined", "null"} THEN memory ELSE memorySwap

NoMemResult == [returned |-> FALSE, memory |-> NaN, memorySwap |-> NaN]

NoMemArgs == [memory |-> Undefined, memorySwap |-> Undefined]

\* lines 195-198: the calls made on the engine once both values are parsed
\* (UpdateCallsSplit: one update call per limit)
UpdateCallsSplit(memBytes, swapBytes) ==
    << [Memory |-> memBytes, MemorySwap |-> memBytes],
       [Memory |-> memBytes, MemorySwap |-> swapBytes] >>

UpdateCalls(memBytes, swapBytes) ==
    << [Memory |-> memBytes, MemorySwap |-> swapBytes] >>

\* !memory, server.js 219
Falsy(v) == v \in {Undefined, Null, Num(Bytes(0, 0)), Str(<<>>)}

MemoryRequired == [status |-> 400, error |-> "memory_required"]

\* server.js 224
Updated == [status |-> 200, error |-> ""]

\* server.js 226: e.message || "docker_update_error"
UpdateError(message) ==
    [status |-> 500, error |-> IF message = "" THEN "docker_update_error" ELSE message]

\* messages container.update may fail with; "" is an error without one
EngineMessages == {"", "no such container"}

MemInit ==
    /\ mpc = "idle"
    /\ margs = NoMemArgs
    /\ mmem = InvalidMemory
    /\ mswap = InvalidMemory
    /\ mengine = <<>>
    /\ mresult = NoMemResult
    /\ mvia = "direct"
    /\ mres = <<>>

\* docker.js 190-195: updateContainerMemory up to await container.update;
\* a throw of parseMemory reaches the route's catch in the same step
MemEnter(memory, memorySwap, via) ==
    LET memBytes  == ParseMemory(memory)
        swapBytes == IF memBytes.ok
                     THEN ParseMemory(SwapSource(memory, memorySwap))
                     ELSE InvalidMemory
    IN  /\ margs' = [memory |-> memory, memorySwap |-> memorySwap]
        /\ mvia' = via
        /\ mmem' = memBytes
        /\ mswap' = swapBytes
        /\ IF memBytes.ok /\ swapBytes.ok
           THEN /\ mengine' = UpdateCalls(memBytes, swapBytes)
                /\ mpc' = "updating"
                /\ UNCHANGED mres
           ELSE /\ mpc' = "thrown"
                /\ UNCHANGED mengine
                /\ mres' = IF via = "route"
                           THEN <<UpdateError("Invalid memory format")>> ELSE mres
        /\ UNCHANGED mresult

\* a caller inside the process calls updateContainerMemory
MemCall ==
    /\ mpc = "idle"
    /\ \E memory \in MemValues, memorySwap \in SwapValues :
          MemEnter(memory, memorySwap, "direct")
    /\ UNCHANGED nonMemVars

\* server.js 216-223: POST /v1/containers/:id/memory, past the gate
MemRoute ==
    /\ mpc = "idle"
    /\ \E memory \in MemValues, memorySwap \in SwapValues :
          IF Falsy(memory)
          THEN /\ margs' = [memory |-> memory, memorySwap |-> memorySwap]
               /\ mvia' = "route"
               /\ mres' = <<MemoryRequired>>
               /\ mpc' = "refused"
               /\ UNCHANGED <<mmem, mswap, mengine, mresult>>
          ELSE MemEnter(memory, memorySwap, "route")
    /\ UNCHANGED nonMemVars

\* docker.js 195-199 and server.js 224-226: container.update settles
MemUpdateSettled ==
    /\ mpc = "updating"
    /\ \/ /\ mresult' = [returned |-> TRUE, memory |-> mmem, memorySwap |-> mswap]
          /\ mpc' = "done"
          /\ mres' = IF mvia = "route" THEN <<Updated>> ELSE mres
       \/ /\ mpc' = "thrown"
          /\ UNCHANGED mresult
          /\ \E message \in EngineMessages :
                mres' = IF mvia = "route" THEN <<UpdateError(message)>> ELSE mres
    /\ UNCHANGED <<margs, mmem, mswap, mengine, mvia>>
    /\ UNCHANGED nonMemVars

\* the call is over
MemReset ==
    /\ mpc \in {"done", "thrown", "refused"}
    /\ mpc' = "idle"
    /\ margs' = NoMemArgs
    /\ mmem' = InvalidMemory
    /\ mswap' = InvalidMemory
    /\ mengine' = <<>>
    /\ mresult' = NoMemResult
    /\ mvia' = "direct"
    /\ mres' = <<>>
    /\ UNCHANGED nonMemVars

-----------------------------------------------------------------------------
(* listContainers (docker.js 14-20).  Containers and their names are those  *)
(* of the update workflow: a name is a sequence of pieces, "/" being one.   *)

\* containers the engine may report
Listable ==
    Universe \cup { Container(FullId("6"), <<<<"/", "nginx">>>>),
                    Container(FullId("7"), <<<<>>>>),
                    Container(FullId("8"), <<<<"/", "/", "/", "redis">>>>),
                    Container(FullId("9"), <<<<"redis">>, <<"/", "cache">>>>),
                    Container([FullId("1") EXCEPT ![IdLen + 1] = "e"], <<<<"/", "web">>>>) }

\* c.Names?.[0] || ""
FirstName(c) == IF Len(c.Names) = 0 THEN <<>> ELSE c.Names[1]

\* lines 16-19: the object built for one container
Summary(c) == [id |-> SliceTo(c.Id, IdLen), name |-> StripSlash(FirstName(c))]

ListInit ==
    /\ cpc = "idle"
    /\ creported = <<>>
    /\ csummaries = <<>>

\* line 15: docker.listContainers({ all: true }) is awaited
ListCall ==
    /\ cpc = "idle"
    /\ cpc' = "listing"
    /\ UNCHANGED <<creported, csummaries>>
    /\ UNCHANGED nonListVars

\* lines 15-19: the engine answers, or fails
ListSettled ==
    /\ cpc = "listing"
    /\ \/ \E cs \in SeqsUpTo(Listable, MaxListed) :
             /\ creported' = cs
             /\ csummaries' = [i \in 1..Len(cs) |-> Summary(cs[i])]
             /\ cpc' = "done"
       \/ /\ cpc' = "thrown"
          /\ UNCHANGED <<creported, csummaries>>
    /\ UNCHANGED nonListVars

\* the call is over
ListReset ==
    /\ cpc \in {"done", "thrown"}
    /\ cpc' = "idle"
    /\ creported' = <<>>
    /\ csummaries' = <<>>
    /\ UNCHANGED nonListVars

-----------------------------------------------------------------------------
(* updateDockerInstanceWithBackup (docker.js 500-585) run by two callers at *)
(* once, interleaved at their awaits.  The stages and their order are those *)
(* of the single invocation above; the re-locate loop is taken as one step  *)
(* that finds the container or gives up.  Local storage is a set of files,  *)
(* each remembering the invocation that wrote it and the container it was   *)
(* copied from.                                                             *)

\* the file a backup or restore stage copies
FileOf(stage) ==
    CASE stage \in {"backup_crt", "restore_crt"}           -> "myuc2b.com.crt"
      [] stage \in {"backup_key", "restore_key"}           -> "myuc2b.com.key"
      [] stage \in {"backup_settings", "restore_settings"} -> "settings.js"

\* line 501: `/tmp/${domain}`
BackupDir(domain, k) == <<"/tmp/", domain>>

\* the identifier the deploy of invocation k gives the recreated container
FreshId(k) == IF k = 1 THEN FullId("8") ELSE FullId("9")

\* the engine holds a container with this reference
Exists(cs, ref) == \E c \in cs : SliceTo(c.Id, IdLen) = ref

\* docker cp <container>:<file> <dir>/ : the file of that name is replaced
CopyOut(disk, dir, file, k, ref) ==
    { e \in disk : ~(e.dir = dir /\ e.file = file) }
    \cup { [dir |-> dir, file |-> file, by |-> k, from |-> ref] }

BackupInit ==
    /\ bpc = [k \in Calls |-> "idle"]
    /\ bdomain = [k \in Calls |-> ""]
    /\ bold = [k \in Calls |-> <<>>]
    /\ bnew = [k \in Calls |-> <<>>]
    /\ bengine = { Container(FullId("1"), <<ChatName("a")>>),
                   Container(FullId("2"), <<ChatName("b")>>) }
    /\ bdisk = {}
    /\ bwrote = [k \in Calls |-> {}]
    /\ brestored = [k \in Calls |-> <<>>]

\* the stage of invocation k completed / threw (lines 581-584)
BackupGoto(k, ok) ==
    bpc' = [bpc EXCEPT ![k] = IF ok THEN NextStage(bpc[k]) ELSE AfterFailure(bpc[k])]

\* the call: updateDockerInstanceWithBackup(docker, domain)
BackupStart(k) ==
    /\ bpc[k] = "idle"
    /\ \E d \in Domains : bdomain' = [bdomain EXCEPT ![k] = d]
    /\ bpc' = [bpc EXCEPT ![k] = "locate"]
    /\ UNCHANGED <<bold, bnew, bengine, bdisk, bwrote, brestored>>
    /\ UNCHANGED nonBackupVars

\* 1) and 5): findContainerByDomain
BackupFind(k) ==
    /\ bpc[k] \in {"locate", "relocate"}
    /\ LET found == FindContainerByDomain(bengine, bdomain[k])
       IN  \/ /\ found # {}
              /\ \E id \in found :
                    IF bpc[k] = "locate"
                    THEN bold' = [bold EXCEPT ![k] = id] /\ UNCHANGED bnew
                    ELSE bnew' = [bnew EXCEPT ![k] = id] /\ UNCHANGED bold
              /\ BackupGoto(k, TRUE)
           \/ /\ BackupGoto(k, FALSE)
              /\ UNCHANGED <<bold, bnew>>
    /\ UNCHANGED <<bdomain, bengine, bdisk, bwrote, brestored>>
    /\ UNCHANGED nonBackupVars

\* 2) mkdir -p ${backupDir}
BackupMkdir(k) ==
    /\ bpc[k] = "mkdir"
    /\ \E ok \in BOOLEAN : BackupGoto(k, ok)
    /\ UNCHANGED <<bdomain, bold, bnew, bengine, bdisk, bwrote, brestored>>
    /\ UNCHANGED nonBackupVars

\* 3) docker cp ${oldContainerId}:<file> ${backupDir}/
BackupCopyOut(k) ==
    /\ bpc[k] \in BackupStages
    /\ \/ /\ Exists(bengine, bold[k])
          /\ bdisk' = CopyOut(bdisk, BackupDir(bdomain[k], k), FileOf(bpc[k]), k, bold[k])
          /\ bwrote' = [bwrote EXCEPT ![k] = @ \cup {FileOf(bpc[k])}]
          /\ BackupGoto(k, TRUE)
       \/ /\ BackupGoto(k, FALSE)
          /\ UNCHANGED <<bdisk, bwrote>>
    /\ UNCHANGED <<bdomain, bold, bnew, bengine, brestored>>
    /\ UNCHANGED nonBackupVars

\* 4) updateDockerInstance(domain): the domain's container is recreated
BackupDeploy(k) ==
    /\ bpc[k] = "deploy"
    /\ \/ /\ bengine' = (bengine \ Named(bengine, bdomain[k]))
                         \cup {Container(FreshId(k), <<ChatName(bdomain[k])>>)}
          /\ BackupGoto(k, TRUE)
       \/ /\ BackupGoto(k, FALSE)
          /\ UNCHANGED bengine
    /\ UNCHANGED <<bdomain, bold, bnew, bdisk, bwrote, brestored>>
    /\ UNCHANGED nonBackupVars

\* 6) docker cp ${backupDir}/<file> ${newContainerId}:<path>
BackupCopyBack(k) ==
    /\ bpc[k] \in RestoreStages
    /\ \/ \E e \in bdisk :
             /\ e.dir = BackupDir(bdomain[k], k) /\ e.file = FileOf(bpc[k])
             /\ Exists(bengine, bnew[k])
             /\ brestored' = [brestored EXCEPT ![k] =
                                Append(@, [file |-> e.file, by |-> e.by, from |-> e.from,
                                           into |-> bnew[k]])]
             /\ BackupGoto(k, TRUE)
       \/ /\ BackupGoto(k, FALSE)
          /\ UNCHANGED brestored
    /\ UNCHANGED <<bdomain, bold, bnew, bengine, bdisk, bwrote>>
    /\ UNCHANGED nonBackupVars

\* 7) pm2 restart all, and the return
BackupPm2(k) ==
    /\ bpc[k] = "pm2"
    /\ \E ok \in BOOLEAN : BackupGoto(k, ok)
    /\ UNCHANGED <<bdomain, bold, bnew, bengine, bdisk, bwrote, brestored>>
    /\ UNCHANGED nonBackupVars

\* both callers are through; the next pair starts on a clean machine
BackupReset ==
    /\ \A k \in Calls : bpc[k] \in {"done", "failed"}
    /\ bpc' = [k \in Calls |-> "idle"]
    /\ bdomain' = [k \in Calls |-> ""]
    /\ bold' = [k \in Calls |-> <<>>]
    /\ bnew' = [k \in Calls |-> <<>>]
    /\ bengine' = { Container(FullId("1"), <<ChatName("a")>>),
                    Container(FullId("2"), <<ChatName("b")>>) }
    /\ bdisk' = {}
    /\ bwrote' = [k \in Calls |-> {}]
    /\ brestored' = [k \in Calls |-> <<>>]
    /\ UNCHANGED nonBackupVars

-----------------------------------------------------------------------------
(* auth (auth.js 19-37) as a function of its three arguments.  Under the    *)
(* route table above next is the router's, which hands a handler's throw to *)
(* its own error path and returns; here next is whatever the caller passes, *)
(* and may throw back into auth.  The whole call is synchronous.            *)

\* configurations makeAuthMiddleware can capture
AuthCfgs == { MakeAuthMiddleware(env) : env \in { e \in Envs : MakeAuthMiddleware(e).ok } }

NoAuthCall ==
    [header |-> [present |-> FALSE, value |-> <<>>],
     cfg |-> [ok |-> FALSE, alg |-> "", key |-> ""], nextThrows |-> FALSE]

\* lines 20-36: what one call does: whether next() was invoked, and the
\* responses sent; next() is called inside the try, so its throw is caught
\* on line 34
AuthCall(h, cfg, nextThrows) ==
    LET out == Auth(h, cfg)
    IN  IF ~out.next
        THEN [invoked |-> 0, responses |-> <<Response(out.status, out.error)>>]
        ELSE IF nextThrows
        THEN [invoked |-> 1, responses |-> <<Response(401, "invalid_token")>>]
        ELSE [invoked |-> 1, responses |-> <<>>]

AuthInit ==
    /\ apc = "idle"
    /\ acall = NoAuthCall
    /\ ares = <<>>
    /\ anext = 0

\* auth(req, res, next) runs to its return
AuthRun ==
    /\ apc = "idle"
    /\ \E h \in Headers, cfg \in AuthCfgs, nextThrows \in BOOLEAN :
          /\ acall' = [header |-> h, cfg |-> cfg, nextThrows |-> nextThrows]
          /\ ares' = AuthCall(h, cfg, nextThrows).responses
          /\ anext' = AuthCall(h, cfg, nextThrows).invoked
    /\ apc' = "returned"
    /\ UNCHANGED nonAuthVars

\* the call is over
AuthReset ==
    /\ apc = "returned"
    /\ apc' = "idle"
    /\ acall' = NoAuthCall
    /\ ares' = <<>>
    /\ anext' = 0
    /\ UNCHANGED nonAuthVars

-----------------------------------------------------------------------------
(* execInContainer (docker.js 25-40).  Text is a sequence of characters,    *)
(* " " standing for any white space.  The stream has a "data" and an "end"  *)
(* listener and no "error" listener: an "error" event without a listener is *)
(* thrown by the emitter and ends the process.                              *)

ExecChunks == { <<" ", "o", "k">>, <<"o", "k", " ">>, <<"a">>, <<" ">> }

ExecPending == [kind |-> "pending", value |-> <<>>]

ExecResolved(text) == [kind |-> "resolved", value |-> text]

ExecRejected == [kind |-> "rejected", value |-> <<>>]

ExecInit ==
    /\ xpc = "idle"
    /\ xchunks = <<>>
    /\ xoutput = <<>>
    /\ xresult = ExecPending

\* lines 26-31: the call; container.exec is awaited
ExecCall ==
    /\ xpc = "idle"
    /\ xpc' = "create"
    /\ UNCHANGED <<xchunks, xoutput, xresult>>
    /\ UNCHANGED nonExecVars

\* lines 27-33: container.exec settles; on success exec.start is called
ExecCreated ==
    /\ xpc = "create"
    /\ \/ /\ xpc' = "starting"
          /\ UNCHANGED xresult
       \/ /\ xpc' = "over"
          /\ xresult' = ExecRejected
    /\ UNCHANGED <<xchunks, xoutput>>
    /\ UNCHANGED nonExecVars

\* lines 33-37: the callback of exec.start
ExecStarted ==
    /\ xpc = "starting"
    /\ \/ /\ xpc' = "streaming"
          /\ UNCHANGED xresult
       \/ /\ xpc' = "over"
          /\ xresult' = ExecRejected
    /\ UNCHANGED <<xchunks, xoutput>>
    /\ UNCHANGED nonExecVars

\* line 36: stream.on("data", chunk => (output += chunk.toString()))
ExecData ==
    /\ xpc = "streaming"
    /\ Len(xchunks) < MaxOut
    /\ \E chunk \in ExecChunks :
          /\ xchunks' = Append(xchunks, chunk)
          /\ xoutput' = xoutput \o chunk
    /\ UNCHANGED <<xpc, xresult>>
    /\ UNCHANGED nonExecVars

\* line 37: stream.on("end", () => resolve(output.trim()))
ExecEnd ==
    /\ xpc = "streaming"
    /\ xpc' = "over"
    /\ xresult' = ExecResolved(Trim(xoutput))
    /\ UNCHANGED <<xchunks, xoutput>>
    /\ UNCHANGED nonExecVars

\* the stream emits "error" and does not end: no listener is registered
\* (lines 35-37), neither resolve nor reject is called
ExecStreamError ==
    /\ xpc = "streaming"
    /\ xpc' = "crashed"
    /\ UNCHANGED <<xchunks, xoutput, xresult>>
    /\ UNCHANGED nonExecVars

\* the call is over
ExecReset ==
    /\ xpc = "over"
    /\ xpc' = "idle"
    /\ xchunks' = <<>>
    /\ xoutput' = <<>>
    /\ xresult' = ExecPending
    /\ UNCHANGED nonExecVars

-----------------------------------------------------------------------------
(* Specifications *)

Init ==
    GateInit /\ RestartInit /\ UpdateInit /\ PutInit /\ EcoInit /\ LogsInit /\ MemInit
    /\ ListInit /\ BackupInit /\ AuthInit /\ ExecInit

NextGate ==
    \/ Boot
    \/ Receive
    \/ RunAuth
    \/ RunHandler
    \/ Finish

NextRestart ==
    \/ RouteRestart
    \/ CallRestartContainers
    \/ RestartIssue
    \/ RestartOne
    \/ RestartReturn
    \/ RestartReset

NextUpdate ==
    \/ UpdateStart
    \/ Locate
    \/ ExecStage
    \/ Deploy
    \/ EngineUp
    \/ Relocate
    \/ Wait
    \/ Pm2Restart

NextPut ==
    \/ \E k \in Calls : PutStart(k)
    \/ \E k \in Calls : PutMkdir(k)
    \/ \E k \in Calls : PutWrite(k)
    \/ \E k \in Calls : PutTar(k)
    \/ \E k \in Calls : PutRead(k)
    \/ \E k \in Calls : PutArchive(k)
    \/ \E k \in Calls : PutRmDir(k)
    \/ \E k \in Calls : PutRmTar(k)
    \/ PutReset

NextEco ==
    \/ EcoRequest
    \/ EcoPutSettled
    \/ EcoPm2Settled
    \/ EcoReset

NextLogs ==
    \/ LogsCall
    \/ LogsFlushSettled
    \/ LogsExecCreated
    \/ LogsStreamStart
    \/ LogsData
    \/ LogsTick
    \/ LogsTimer
    \/ LogsStreamError
    \/ LogsReset

NextMem ==
    \/ MemCall
    \/ MemRoute
    \/ MemUpdateSettled
    \/ MemReset

NextList ==
    \/ ListCall
    \/ ListSettled
    \/ ListReset

NextBackup ==
    \/ \E k \in Calls : BackupStart(k)
    \/ \E k \in Calls : BackupFind(k)
    \/ \E k \in Calls : BackupMkdir(k)
    \/ \E k \in Calls : BackupCopyOut(k)
    \/ \E k \in Calls : BackupDeploy(k)
    \/ \E k \in Calls : BackupCopyBack(k)
    \/ \E k \in Calls : BackupPm2(k)
    \/ BackupReset

NextAuth ==
    \/ AuthRun
    \/ AuthReset

NextExec ==
    \/ ExecCall
    \/ ExecCreated
    \/ ExecStarted
    \/ ExecData
    \/ ExecEnd
    \/ ExecStreamError
    \/ ExecReset

SpecGate == Init /\ [][NextGate]_vars

SpecRestart == Init /\ [][NextRestart]_vars

SpecUpdate == Init /\ [][NextUpdate]_vars

SpecPut == Init /\ [][NextPut]_vars

SpecEco == Init /\ [][NextEco]_vars

SpecLogs == Init /\ [][NextLogs]_vars

SpecMem == Init /\ [][NextMem]_vars

SpecList == Init /\ [][NextList]_vars

SpecBackup == Init /\ [][NextBackup]_vars

SpecAuth == Init /\ [][NextAuth]_vars

SpecExec == Init /\ [][NextExec]_vars

\* the runtime runs a continuation whose await has settled and a timer that is
\* due: an enabled step of the workflow is eventually taken
SpecUpdateLive == SpecUpdate /\ WF_vars(NextUpdate)

-----------------------------------------------------------------------------
(* Properties of the authorization gate, checked under SpecGate *)

Protected == req.route.path # "/healthz" /\ req.route # NoRoute

\* the header is token t, bare or after the "Bearer " prefix
Carries(h, t) == h.present /\ (h.value = BearerPrefix \o <<t>> \/ h.value = <<t>>)

\* t verifies under the configured key and algorithm
Verifies(t) == t.alg = authCfg.alg /\ t.key = authCfg.key /\ ~t.expired

\* t's scopes array contains the exact string "docker:list"
Granted(t) == t.scopes.isArray /\ \E i \in 1..Len(t.scopes.items) : t.scopes.items[i] = "docker:list"

Sent(status, error) == res = <<Response(status, error)>>

\* C1: on a protected route the wrapped handler is invoked (next() called, the
\* claim attached as req.user) only if the Authorization header carried a token
\* that verifies under the configured key and algorithm and whose scopes array
\* contains exactly "docker:list"; otherwise the handler is never invoked.
C1_HandlerOnlyForVerifiedScopedToken ==
    (Protected /\ (handlerRuns > 0 \/ chainPos > 1 \/ req.user # NoUser)) =>
        /\ handlerRuns <= 1
        /\ \E t \in Tokens :
              Carries(req.header, t) /\ Verifies(t) /\ Granted(t) /\ req.user = t

C1_Witness ==
    Protected /\ gpc = "done" /\ handlerRuns = 1 /\ req.user # NoUser

\* C2 as stated: a token lacking "docker:list" gets 403 on every protected
\* route whether or not its signature and expiry verify.
C2_ForbiddenRegardlessOfValidity ==
    (Protected /\ gpc = "done") =>
        \A t \in Tokens :
            (Carries(req.header, t) /\ ~Granted(t)) => Sent(403, "forbidden")

\* C2 amended: a token that verifies under the configured key and algorithm
\* but lacks "docker:list" gets 403 forbidden on every protected route and the
\* handler is not invoked; a token lacking it that does not verify gets 401
\* invalid_token.
C2_ForbiddenWhenVerifiedWithoutScope ==
    (Protected /\ gpc = "done") =>
        \A t \in Tokens :
            (Carries(req.header, t) /\ ~Granted(t)) =>
                /\ handlerRuns = 0
                /\ Verifies(t) => Sent(403, "forbidden")
                /\ ~Verifies(t) => Sent(401, "invalid_token")

C2_Witness ==
    /\ Protected /\ gpc = "done" /\ Sent(403, "forbidden")
    /\ \E t \in Tokens : Carries(req.header, t) /\ Verifies(t) /\ ~Granted(t)
                         /\ t.scopes.items = <<"docker:list:all">>

\* C3: a request carrying a well-formed but expired token is answered 401
\* invalid_token, never 403, whatever the token's scopes.
C3_ExpiredTokenIs401 ==
    (Protected /\ gpc = "done") =>
        \A t \in Tokens :
            (Carries(req.header, t) /\ t.expired) =>
                Sent(401, "invalid_token") /\ handlerRuns = 0

C3_Witness ==
    /\ Protected /\ gpc = "done" /\ Sent(401, "invalid_token")
    /\ \E t \in Tokens : /\ Carries(req.header, t) /\ t.expired /\ ~Granted(t)
                         /\ t.alg = authCfg.alg /\ t.key = authCfg.key

\* C4 as stated: a header that is absent, empty or does not start with
\* "Bearer " is rejected 401 missing_token and reaches neither jwt.verify nor
\* the handler.
C4_NoBearerPrefixIsMissingToken ==
    (Protected /\ gpc = "done"
       /\ (~req.header.present \/ req.header.value = <<>>
           \/ ~StartsWith(req.header.value, BearerPrefix))) =>
        Sent(401, "missing_token") /\ verifyLog = <<>> /\ handlerRuns = 0

\* C4 amended: a header that is absent, empty or only the "Bearer " prefix is
\* rejected 401 missing_token, reaching neither jwt.verify nor the handler,
\* and missing_token is sent in no other case; a non-empty header that does
\* not start with "Bearer " is handed whole to jwt.verify as the token.
C4_EmptyTokenIsMissingToken ==
    (Protected /\ gpc = "done") =>
        LET empty == ~req.header.present \/ req.header.value = <<>>
                     \/ req.header.value = BearerPrefix
        IN  /\ empty => Sent(401, "missing_token") /\ verifyLog = <<>> /\ handlerRuns = 0
            /\ Sent(401, "missing_token") => empty
            /\ (~empty /\ ~StartsWith(req.header.value, BearerPrefix)) =>
                   verifyLog = <<req.header.value>>

C4_Witness ==
    /\ Protected /\ gpc = "done" /\ Sent(401, "missing_token")
    /\ req.header.present /\ req.header.value = BearerPrefix

\* C5: every registered route except /healthz has the gate in front of its
\* handler, so no engine operation is reached by a request that did not pass
\* the gate; /healthz answers {ok: true} without looking at any credential.
C5_OnlyHealthzIsOpen ==
    /\ \A r \in Routes : r.path # "/healthz" => r.chain = <<"auth", "handler">>
    /\ (engineOps # <<>> \/ (Protected /\ handlerRuns > 0)) =>
          /\ Protected
          /\ verifyLog # <<>>
          /\ \E t \in Tokens : Carries(req.header, t) /\ Verifies(t) /\ Granted(t)
    /\ (gpc = "done" /\ req.route.path = "/healthz") =>
          Sent(200, "ok_true") /\ verifyLog = <<>> /\ engineOps = <<>>

C5_Witness ==
    /\ gpc = "done" /\ engineOps = <<"archive", "exec">>
    /\ req.route.path = "/v1/containers/:id/pm2/ecosystem/start"
    /\ Sent(200, "result")

-----------------------------------------------------------------------------
(* Properties of the batch restart, checked under SpecRestart *)

ExactlyFour(ids) == ids.isArray /\ Len(ids.items) = 4

Failures(log) == { i \in 1..Len(log) : ~log[i].ok }

WithStatus(rs, st) == { i \in 1..Len(rs) : rs[i].status = st }

\* C6: with exactly 4 references restartContainers never throws and returns
\* one record per reference, in input order: "restarted" iff that reference's
\* engine restart succeeded, "error" with the failure detail iff it failed;
\* one failing engine call gives 4 records, 1 failed and 3 restarted.
C6_OneRecordPerReference ==
    (rpc # "idle" /\ ExactlyFour(rids)) =>
        /\ rthrown = NoError /\ rpc # "thrown"
        /\ Len(results) = Len(engineLog) /\ Len(results) <= 4
        /\ \A i \in 1..Len(results) :
              /\ engineLog[i].id = rids.items[i]
              /\ engineLog[i].ok =>
                     results[i] = [id |-> rids.items[i], status |-> "restarted"]
              /\ ~engineLog[i].ok =>
                     results[i] = [id |-> rids.items[i], status |-> "error",
                                   error |-> engineLog[i].msg]
        /\ rpc \in {"returned", "responded"} =>
              /\ Len(results) = 4
              /\ rvia = "route" => rres = <<Response(200, "result")>>
              /\ Cardinality(Failures(engineLog)) = 1 =>
                    /\ Cardinality(WithStatus(results, "error")) = 1
                    /\ Cardinality(WithStatus(results, "restarted")) = 3

C6_Witness ==
    /\ rpc = "returned" /\ ExactlyFour(rids)
    /\ Failures(engineLog) = {2}
    /\ results[2].status = "error" /\ results[4].status = "restarted"

\* C7: when the input is not an array of exactly 4 references the operation
\* fails with InvalidInput (400 at the route, "invalid_ids" thrown by
\* restartContainers) and no restart is attempted on the engine.
C7_InvalidInputRejected ==
    (rpc # "idle" /\ ~ExactlyFour(rids)) =>
        /\ engineLog = <<>> /\ results = <<>>
        /\ rvia = "route" =>
              /\ rpc = "responded"
              /\ rres = <<Response(400, "E necessario fornecer exatamente 4 IDs de containers")>>
        /\ rvia = "direct" =>
              /\ rpc = "thrown"
              /\ rthrown = ErrorObj("invalid_ids")

C7_Witness ==
    /\ rpc = "thrown" /\ rvia = "direct" /\ rthrown = ErrorObj("invalid_ids")
    /\ ~rids.isArray /\ Len(rids.items) = 4 /\ engineLog = <<>>

-----------------------------------------------------------------------------
(* Properties of the update-with-backup workflow, checked under SpecUpdate *)

\* some container's name, leading "/" aside, is exactly docker_<d>_chat
ExactMatch(cs, d) ==
    \E c \in cs : \E i \in 1..Len(c.Names) :
        c.Names[i] \in { <<"docker_", d, "_chat">>, <<"/", "docker_", d, "_chat">> }

StageOrder ==
    <<"locate", "mkdir", "backup_crt", "backup_key", "backup_settings", "deploy",
      "relocate", "restore_crt", "restore_key", "restore_settings", "pm2">>

\* the text of the value a stage threw
CauseText(e) == IF e.type = "Error" THEN e.message ELSE e.value

\* C8: for a domain that no container is named after, the invocation fails
\* (ContainerNotFound wrapped as UpdateFailed whenever the engine answered the
\* list call) and has not created the backup directory, copied anything,
\* deployed, restored or restarted pm2.
C8_NoMatchNoSideEffects ==
    (upc \notin {"idle", "locate"} /\ ~Includes(started, "deploy")
       /\ ~ExactMatch(containers, udomain)) =>
        /\ upc = "failed"
        /\ started = <<"locate">>
        /\ succeeded = {}
        /\ uresult = NoResult
        /\ uerror.type = "Error" /\ uerror.prefix = "Falha no update: "
        /\ ucause \in {NotFoundError(udomain), EngineError}
        /\ ucause # EngineError =>
              uerror.detail = <<"Container ", "docker_", udomain, "_chat", " nao encontrado">>

C8_Witness ==
    /\ upc = "failed" /\ started = <<"locate">> /\ udomain = "a"
    /\ Container(FullId("2"), <<ChatName("a") \o <<"2">>>>) \in containers
    /\ ~ExactMatch(containers, "a")
    /\ uerror.type = "Error"
    /\ uerror.detail = <<"Container ", "docker_", "a", "_chat", " nao encontrado">>

\* C9: the stages start strictly in the order Locate, Backup (directory and 3
\* copies), Deploy, Re-locate, Restore (3 copies), Reconcile; a stage starts
\* only after every earlier one succeeded; after a failure no later stage
\* starts and the invocation ends with one thrown failure.
C9_InOrder ==
    /\ Len(started) <= Len(StageOrder)
    /\ started = SubSeq(StageOrder, 1, Len(started))
    /\ \A i \in 1..(Len(started) - 1) : started[i] \in succeeded
    /\ uerror # NoError => upc = "failed"
    /\ upc = "failed" =>
          /\ uerror # NoError /\ uresult = NoResult
          /\ started # <<>> /\ started[Len(started)] \notin succeeded
    /\ upc = "done" =>
          /\ started = StageOrder /\ uerror = NoError /\ uresult # NoResult
          /\ \A i \in 1..Len(started) : started[i] \in succeeded

C9_StagesStrictlyInOrder ==
    /\ []C9_InOrder
    /\ [][/\ upc = "failed" => (upc' = "failed" /\ started' = started)
          /\ uerror # NoError => uerror' = uerror]_vars

C9_Witness ==
    /\ upc = "failed" /\ uerror # NoError
    /\ started = SubSeq(StageOrder, 1, 9)
    /\ "restore_key" \notin succeeded /\ "restore_crt" \in succeeded

\* C10: whichever stage fails, the UpdateFailed error given to the caller
\* carries the original cause text of that stage.
C10_FailureCarriesCause ==
    upc = "failed" =>
        /\ uerror.type = "Error" /\ uerror.prefix = "Falha no update: "
        /\ uerror.detail = CauseText(ucause)

-----------------------------------------------------------------------------
(* The re-locate loop, checked under SpecUpdateLive *)

C11_Budget ==
    /\ retries \in 0..10
    /\ retries = 10 => (upc = "failed" /\ ucause = TimeoutError)
    /\ ucause = TimeoutError => retries = 10
    /\ upc = "wait" => retries \in 1..9

\* what one step may do to the loop: a successful attempt goes straight on to
\* the first restore copy, a failed one counts and either waits or, being the
\* tenth, throws; the wait leads back to one more attempt
C11_LoopStep ==
    /\ (upc = "relocate" /\ upc' # "relocate") =>
          \/ /\ upc' = "restore_crt" /\ retries' = retries
             /\ newContainerId' \in FindContainerByDomain(containers, udomain)
          \/ upc' = "wait" /\ retries' = retries + 1 /\ retries' < 10
          \/ upc' = "failed" /\ retries' = 10 /\ ucause' = TimeoutError
    /\ (upc = "wait" /\ upc' # "wait") => (upc' = "relocate" /\ retries' = retries)
    /\ upc \notin {"relocate", "wait"} => retries' = retries

\* C11: the re-locate loop always terminates: at most 10 locate attempts, a
\* one-second wait after each failed attempt but the tenth, on to Restore as
\* soon as an attempt succeeds, Timeout when the tenth attempt fails; it never
\* retries indefinitely.
C11_RelocateTerminates ==
    /\ []C11_Budget
    /\ [][C11_LoopStep]_vars
    /\ (upc \in {"relocate", "wait"}) ~> (upc \in {"restore_crt", "failed"})

C11_Witness ==
    /\ upc = "failed" /\ retries = 10 /\ ucause = TimeoutError
    /\ uerror = UpdateFailed(TimeoutError)
    /\ started[Len(started)] = "relocate"

-----------------------------------------------------------------------------
(* Properties of putFileInContainer, checked under SpecPut *)

PutActive(k) == ppc[k] \notin {"idle", "done"}

\* C12: once a call to putFileInContainer has completed, resolved or rejected
\* at whichever step, nothing that call wrote remains on local storage: not
\* its staging directory, not its archive, not any other file.
C12_NothingLeftBehind ==
    \A k \in Calls : ppc[k] = "done" => ~(\E x \in pfs : x.by = k)

\* C13: two calls in flight for the same container never have the same
\* staging directory or archive path, and neither reads, overwrites or
\* deletes an entry the other wrote.
C13_NoSharedPaths ==
    \A j, k \in Calls :
        (j # k /\ PutActive(j) /\ PutActive(k) /\ pargs[j].id = pargs[k].id) =>
            /\ TmpDir(pargs[j]) # TmpDir(pargs[k])
            /\ TmpTar(pargs[j]) # TmpTar(pargs[k])
            /\ ~(\E t \in ptouched : t.actor \in {j, k})

-----------------------------------------------------------------------------
(* Properties of the ecosystem-start route, checked under SpecEco *)

\* the descriptor has a property the schema does not name, at the top level
\* or inside a process entry
HasUnknownProperty(eco) ==
    /\ eco.kind = "object"
    /\ \/ eco.top \ {"apps"} # {}
       \/ \E i \in 1..Len(eco.apps) :
             eco.apps[i].keys \ KnownProps # {}

\* some process entry lacks name, script, instances or exec_mode
LacksRequired(eco) ==
    /\ eco.kind = "object"
    /\ \E i \in 1..Len(eco.apps) :
          {"name", "script", "instances", "exec_mode"} \ eco.apps[i].keys # {}

Logged(name) == \E i \in 1..Len(elog) : elog[i].ev = name

\* C14: a descriptor with an unknown top-level property, or an unknown
\* property inside a process entry, is answered 400 invalid_ecosystem and
\* nothing is staged: it is never accepted with the property dropped.
C14_UnknownPropertyRejected ==
    (epc # "idle" /\ HasUnknownProperty(ebody)) =>
        /\ epc = "responded"
        /\ eres = <<Response(400, "invalid_ecosystem")>>
        /\ elog = <<>>

\* C15: putFileInContainer is called only for a descriptor that is an object
\* with a non-empty apps array whose every entry has the four required
\* properties and no value out of its schema; an entry lacking a required
\* property gives 400 with no call at all; pm2 start is invoked only after
\* the file was staged.
C15_NothingStagedUnlessValid ==
    /\ Logged("putFileInContainer") =>
          /\ ebody.kind = "object" /\ "apps" \in ebody.top /\ Len(ebody.apps) >= 1
          /\ ~LacksRequired(ebody)
          /\ \A i \in 1..Len(ebody.apps) : ebody.apps[i].bad \cap KnownProps = {}
    /\ (epc # "idle" /\ LacksRequired(ebody) /\ "apps" \in ebody.top) =>
          /\ epc = "responded"
          /\ eres = <<Response(400, "invalid_ecosystem")>>
          /\ elog = <<>>
    /\ \A i \in 1..Len(elog) :
          elog[i].ev = "pm2StartEcosystem" =>
              /\ i >= 3
              /\ elog[i - 1].ev = "staged"
              /\ elog[1].ev = "putFileInContainer"
    /\ Len(elog) <= 4
    /\ \A i \in 1..Len(elog) : elog[i].ev = "put_failed" => ~Logged("pm2StartEcosystem")

C15_Witness ==
    /\ epc = "responded" /\ eres = <<Response(400, "invalid_ecosystem")>> /\ elog = <<>>
    /\ ebody.kind = "object" /\ ebody.top = {"apps"} /\ Len(ebody.apps) = 2
    /\ ebody.apps[1] = AppEntry({"name", "script", "instances", "exec_mode"}, {})
    /\ ebody.apps[2] = AppEntry({"name", "instances", "exec_mode"}, {})

-----------------------------------------------------------------------------
(* Properties of pm2LogsContains, checked under SpecLogs *)

StreamStarted == Len(levents) >= 5 /\ levents[5] = "stream_started"

\* some chunk delivered so far contains the needle
NeedleSeen == \E i \in 1..Len(lseen) : Contains(lseen[i].chunk, lneedle)

-----------------------------------------------------------------------------
(* Properties of parseMemory and updateContainerMemory, checked under SpecMem *)

\* t is digits, optionally a dot and more digits, then optionally one unit
\* letter, and nothing else
DecimalWithUnit(t) ==
    \E i \in 1..Len(t), f \in 0..Len(t), u \in {0, 1} :
        /\ i + (IF f > 0 THEN f + 1 ELSE 0) + u = Len(t)
        /\ \A p \in 1..i : IsDigit(t[p])
        /\ f > 0 => (t[i + 1] = "." /\ \A p \in (i + 2)..(i + 1 + f) : IsDigit(t[p]))
        /\ u = 1 => t[Len(t)] \in {"k", "K", "m", "M", "g", "G"}

\* the same shape read loosely: the number may begin or end with its dot, and
\* blanks may surround the number and the unit
LooseDecimalWithUnit(t) ==
    LET core  == SelectSeq(t, LAMBDA c : c # " ")
        last  == IF core = <<>> THEN "" ELSE core[Len(core)]
        digs  == IF last \in {"k", "K", "m", "M", "g", "G"}
                 THEN SubSeq(core, 1, Len(core) - 1) ELSE core
    IN  /\ \A p \in 1..Len(digs) : IsDigit(digs[p]) \/ digs[p] = "."
        /\ \E p \in 1..Len(digs) : IsDigit(digs[p])
        /\ Cardinality({ p \in 1..Len(digs) : digs[p] = "." }) <= 1

\* the digits of t before its unit letter, as numerator and denominator
RefDecimal(t) ==
    LET u    == IF t[Len(t)] \in {"k", "K", "m", "M", "g", "G"} THEN 1 ELSE 0
        body == SubSeq(t, 1, Len(t) - u)
        dot  == { p \in 1..Len(body) : body[p] = "." }
        fl   == IF dot = {} THEN 0 ELSE Len(body) - (CHOOSE p \in dot : TRUE)
    IN  [num  |-> DigitsValue(SelectSeq(body, IsDigit)),
         den  |-> Pow10(fl),
         unit |-> IF u = 1 THEN t[Len(t)] ELSE ""]

\* n * 1024^3, n * 1024^2, n * 1024 or n, rounded
RefBytes(d) ==
    IF d.unit \in {"g", "G"} THEN RoundScaled(d.num, d.den, 3)
    ELSE IF d.unit \in {"m", "M"} THEN RoundScaled(d.num, d.den, 2)
    ELSE IF d.unit \in {"k", "K"} THEN RoundScaled(d.num, d.den, 1)
    ELSE RoundScaled(d.num, d.den, 0)

\* C18: parseMemory gives n * 1024^3 / 1024^2 / 1024 rounded for a decimal n
\* with suffix g / m / k in either case, n rounded for a string without
\* suffix, and a number unchanged; "4g" is 4 * 1024^3, "512m" is 512 * 1024^2
\* and 1024 is 1024.
C18_ParseMemoryMatchesReference ==
    mpc \notin {"idle", "refused"} =>
        LET m == margs.memory
        IN  /\ m.type = "number" => mmem = Value(m.n)
            /\ (m.type = "string" /\ m.s # <<>> /\ DecimalWithUnit(m.s)) =>
                  mmem = Value(RefBytes(RefDecimal(m.s)))
            /\ m = Str(<<"4", "g">>) => mmem = Value(Bytes(4 * 1024, 0))
            /\ m = Str(<<"5", "1", "2", "m">>) => mmem = Value(Bytes(512, 0))
            /\ m = Str(<<"0", ".", "5", "k">>) => mmem = Value(Bytes(0, 512))
            /\ m = Str(<<"4", ".", "5">>) => mmem = Value(Bytes(0, 5))
            /\ m = Num(Bytes(0, 1024)) => mmem = Value(Bytes(0, 1024))

C18_Witness ==
    /\ mpc = "done" /\ margs.memory = Str(<<"1", ".", "5", "m">>)
    /\ mmem = Value(Bytes(1, 524288))
    /\ mresult.memory = Value(Bytes(1, 524288))

\* C19: for every string that is not a decimal number optionally followed by
\* one unit letter (trailing characters after the unit, more than one dot, a
\* lone "."), parseMemory throws and gives no value.
C19_MalformedStringThrows ==
    (mpc # "idle" /\ margs.memory.type = "string"
       /\ ~LooseDecimalWithUnit(margs.memory.s)) =>
        /\ mmem = InvalidMemory
        /\ mpc = "thrown"
        /\ mengine = <<>>

\* C20: without a memorySwap (undefined or null) the swap limit sent to the
\* engine and returned equals the normalized memory limit; with one, it is
\* the normalization of that value.
C20_SwapDefaultsToMemory ==
    (mpc # "idle" /\ mmem.ok) =>
        /\ margs.memorySwap \in {Undefined, Null} => mswap = mmem
        /\ margs.memorySwap \notin {Undefined, Null} =>
              /\ mswap = ParseMemory(margs.memorySwap)
              /\ margs.memorySwap = Num(Bytes(0, 0)) => mswap = Value(Bytes(0, 0))
              /\ margs.memorySwap = Str(<<"8", "g">>) => mswap = Value(Bytes(8 * 1024, 0))
              /\ margs.memorySwap = Str(<<>>) => (mswap = InvalidMemory /\ mpc = "thrown")
        /\ mpc = "thrown" => mresult = NoMemResult
        /\ mengine # <<>> =>
              mengine = <<[Memory |-> mmem, MemorySwap |-> mswap]>>
        /\ mpc = "done" =>
              mresult = [returned |-> TRUE, memory |-> mmem, memorySwap |-> mswap]

C20_Witness ==
    /\ mpc = "done" /\ margs = [memory |-> Str(<<"5", "1", "2", "m">>), memorySwap |-> Undefined]
    /\ mengine = <<[Memory |-> Value(Bytes(512, 0)), MemorySwap |-> Value(Bytes(512, 0))]>>
    /\ mresult.memorySwap = Value(Bytes(512, 0))

-----------------------------------------------------------------------------
(* Properties of the memory route and of the engine update, under SpecMem   *)

\* v was supplied and is not a memory specification
Unparseable(v) == v.type = "string" /\ ~LooseDecimalWithUnit(v.s)

Answered == mvia = "route" /\ mpc \in {"done", "thrown"}

\* C21: a request to the memory route whose memory or memorySwap is present
\* but is not a memory specification is answered 400, not 500.
C21_UnparseableAnswered400 ==
    (Answered /\ (Unparseable(margs.memory) \/ Unparseable(margs.memorySwap))) =>
        /\ Len(mres) = 1
        /\ mres[1].status = 400

\* x is an integer number of bytes
IntegerCount(x) == x.ok /\ ~x.nan /\ DOMAIN x.n = {"hi", "lo"}

\* C23: every Memory and MemorySwap passed to the engine's update call is an
\* integer byte count, for numbers (whole or not) and for every string that
\* parseMemory accepts.
C23_EngineGetsIntegers ==
    \A i \in 1..Len(mengine) :
        IntegerCount(mengine[i].Memory) /\ IntegerCount(mengine[i].MemorySwap)

\* C24: updateContainerMemory makes at most one engine update call, with
\* Memory and MemorySwap together; when parsing either value fails no update
\* call is made; the record returned holds the values sent.
C24_OneUpdateOrNone ==
    /\ Len(mengine) <= 1
    /\ \A i \in 1..Len(mengine) :
          /\ DOMAIN mengine[i] = {"Memory", "MemorySwap"}
          /\ mengine[i] = [Memory |-> mmem, MemorySwap |-> mswap]
    /\ (mpc \in {"updating", "done", "thrown"} /\ (~mmem.ok \/ ~mswap.ok)) =>
          (mengine = <<>> /\ mpc = "thrown" /\ mresult = NoMemResult)
    /\ mpc = "updating" => Len(mengine) = 1
    /\ mpc = "refused" => mengine = <<>>
    /\ mpc = "done" =>
          /\ Len(mengine) = 1
          /\ mresult.returned
          /\ mresult.memory = mengine[1].Memory
          /\ mresult.memorySwap = mengine[1].MemorySwap

C24_Witness ==
    /\ mpc = "thrown"
    /\ margs = [memory |-> Str(<<"4", "g">>), memorySwap |-> Str(<<>>)]
    /\ mmem = Value(Bytes(4 * 1024, 0))
    /\ mswap = InvalidMemory
    /\ mengine = <<>>

-----------------------------------------------------------------------------
(* Properties of listContainers, checked under SpecList *)

\* C22: for every container the engine reports, the summary's id is exactly
\* the first 12 characters of the full identifier and its name never begins
\* with "/", whatever name the engine reports (several leading "/", no name).
C22_SummaryIdAndName ==
    cpc = "done" =>
        /\ Len(csummaries) = Len(creported)
        /\ \A i \in 1..Len(creported) :
              /\ csummaries[i].id = SubSeq(creported[i].Id, 1, 12)
              /\ csummaries[i].name = <<>> \/ csummaries[i].name[1] # "/"

-----------------------------------------------------------------------------
(* Ordering of the batch restart, checked under SpecRestart *)

\* C25: within one restartContainers call the restarts are issued one after
\* the other in input order: the restart of reference i + 1 is not issued
\* before the restart of reference i has settled, and the outcome records
\* come in the order of the input references.
C25_RestartsSequential ==
    /\ \A p \in 1..Len(rtrace) :
          /\ rtrace[p].idx = (p + 1) \div 2
          /\ rtrace[p].ev = IF p % 2 = 1 THEN "start" ELSE "settled"
    /\ \A k \in 1..Len(results) : results[k].id = rids.items[k]
    /\ \A k \in 1..Len(engineLog) : engineLog[k].id = rids.items[k]
    /\ rpc \in {"returned", "responded"} /\ ~InvalidIds(rids) =>
          (Len(rtrace) = 2 * 4 /\ Len(results) = 4)

C25_Witness ==
    /\ rpc = "returned"
    /\ rids.items = <<"c2", "c1", "c1", "c2">>
    /\ Len(rtrace) = 2 * 4
    /\ ~engineLog[1].ok /\ engineLog[2].ok
    /\ results[1].id = "c2" /\ results[2].id = "c1"

-----------------------------------------------------------------------------
(* Matching across chunks, checked under SpecLogs *)

\* the output received so far, chunk after chunk
RECURSIVE Accumulated(_)
Accumulated(seen) ==
    IF seen = <<>> THEN <<>>
    ELSE Accumulated(SubSeq(seen, 1, Len(seen) - 1)) \o seen[Len(seen)].chunk

\* C26: pm2LogsContains reports a match whenever the needle is a substring of
\* the output accumulated within the window, also when the needle arrives
\* split across consecutive chunks.
C26_MatchesAcrossChunks ==
    (lresult.kind = "resolved" /\ Contains(Accumulated(lseen), lneedle)) =>
        lresult.value = TRUE

-----------------------------------------------------------------------------
(* Targets of the restore, checked under SpecUpdate *)

\* C27: the three restore copies and the pm2 restart always name the
\* container found by the re-locate step after the deploy, never the one held
\* before the deploy when the two differ; on success the record returned has
\* the pre-deploy reference as oldContainerId, the re-located one as
\* newContainerId, and backupDir, domain, the deploy log and the restart
\* output.
C27_RestoreTargetsRelocated ==
    /\ \A i \in 1..Len(ucommands) :
          /\ ucommands[i].stage \in {"restore_crt", "restore_key", "restore_settings", "pm2"} =>
                /\ "relocate" \in succeeded
                /\ ucommands[i].container = newContainerId
                /\ ucommands[i].container \in FindContainerByDomain(containers, udomain)
          /\ ucommands[i].stage \in {"backup_crt", "backup_key", "backup_settings"} =>
                ucommands[i].container = oldContainerId
    /\ upc = "done" =>
          /\ { ucommands[i].stage : i \in 1..Len(ucommands) } =
                {"backup_crt", "backup_key", "backup_settings",
                 "restore_crt", "restore_key", "restore_settings", "pm2"}
          /\ uresult.status = "success"
          /\ uresult.oldContainerId = ucommands[1].container
          /\ uresult.newContainerId = ucommands[Len(ucommands)].container
          /\ uresult.backupDir = <<"/tmp/", udomain>>
          /\ uresult.domain = udomain
          /\ uresult.updateLog = updateLog /\ updateLog # <<>>
          /\ uresult.restartOutput # <<>>

C27_Witness ==
    /\ upc = "done"
    /\ oldContainerId # newContainerId
    /\ Len(ucommands) = 7
    /\ ucommands[4] = [stage |-> "restore_crt", container |-> newContainerId]
    /\ ucommands[7] = [stage |-> "pm2", container |-> newContainerId]
    /\ uresult.oldContainerId = oldContainerId
    /\ uresult.newContainerId = newContainerId

-----------------------------------------------------------------------------
(* Two interleaved updates, checked under SpecBackup *)

BackupActive(k) == bpc[k] \notin {"idle", "done", "failed"}

\* C28: when two invocations for the same domain are interleaved, each
\* restores exactly the files it backed up itself from the container it
\* located before its own deploy; the bundle of an invocation is never
\* overwritten or read by the other.
C28_OwnBundleOnly ==
    \A k \in Calls :
        /\ \A i \in 1..Len(brestored[k]) :
              /\ brestored[k][i].by = k
              /\ brestored[k][i].from = bold[k]
        /\ BackupActive(k) =>
              \A f \in bwrote[k] :
                  \E e \in bdisk : /\ e.dir = <<"/tmp/", bdomain[k]>> /\ e.file = f
                                   /\ e.by = k

-----------------------------------------------------------------------------
(* The gate as a function, checked under SpecAuth *)

\* C29: for each request the gate does exactly one of two things: it sends
\* exactly one rejection (401 or 403), or it invokes the wrapped operation;
\* it never sends a rejection after invoking the wrapped operation, even if
\* that operation throws synchronously.
C29_RejectOrInvoke ==
    apc = "returned" =>
        \/ /\ anext = 0
           /\ Len(ares) = 1
           /\ ares[1].status \in {401, 403}
        \/ /\ anext = 1
           /\ ares = <<>>

-----------------------------------------------------------------------------
(* Termination of execInContainer, checked under SpecExec *)

\* C30: every call to execInContainer eventually settles: resolved with the
\* trimmed concatenation of the chunks once the stream ends, or rejected when
\* creating or starting the exec fails or the stream reports an error; it
\* never stays pending when the stream errors without ending.
C30_SettlesOrGoesOn ==
    xpc # "idle" => (xresult.kind # "pending" \/ ENABLED NextExec)

=============================================================================
